---- MODULE Spec2Model ----
(***************************************************************************)
(* Verification model of Multi-SFTP-Sync's concurrency / security core.    *)
(*                                                                         *)
(*   SpecQueue : TransferQueue        (transferQueue.js)                   *)
(*   SpecConn  : ConnectionManager    (src/connectionManager.js) together  *)
(*               with HostTrustStore.verifyFingerprint (hostTrustStore.js) *)
(*   SpecTrust : HostTrustStore called directly                            *)
(*   SpecCred  : CredentialStore      (src/security/credentialStore.js)    *)
(*   SpecExt   : upload / delete / download operations (extension.js,      *)
(*               downloadManager.js, diffManager.js, security/pathGuard.js)*)
(*   SpecExtQueue : the operations of SpecExt that go through the queue    *)
(*   SpecGuard : the functions of security/pathGuard.js called directly    *)
(*   SpecPool  : ConnectionManager's pool with closeConnection, closeAll,  *)
(*               dispose, the idle sweep and the transports' events        *)
(*   SpecClose : the shutdown calls of SpecPool under fair scheduling      *)
(*   SpecDirs  : ConnectionManager.ensureDir                               *)
(*   SpecPre   : ConnectionManager.preConnectAll                           *)
(*   SpecTrustNow : ConnectionManager.trustHostKeyNow                      *)
(*   SpecIdle  : getConnection, the clock and the idle sweep               *)
(*   SpecBorrow : SpecIdle with tasks that use the handle they were given  *)
(*   SpecTrustDisk : SpecTrust on a disk whose writes may fail             *)
(*   SpecSave  : automatic upload on save with its dedupe window           *)
(*                                                                         *)
(* JavaScript is single threaded: every action below is one run of code    *)
(* between two suspension points (one call, one promise reaction, one      *)
(* event callback).                                                        *)
(***************************************************************************)
EXTENDS Integers, Sequences, FiniteSets, TLC

VARIABLES
    \* ---- TransferQueue -------------------------------------------------
    concurrency,      \* this.concurrency
    queue,            \* this.queue: sequence of item ids, head first
    activeCount,      \* this.activeCount
    items,            \* every item object created by enqueue, by id
    tokenCancelled,   \* token.isCancellationRequested, per token
    clearOutcome,     \* "returned" / "threw" right after a clearPending call, else "none"
    \* ---- ConnectionManager ---------------------------------------------
    connections,            \* this.connections: key -> pooled entry
    connecting,             \* this.connecting: key -> in-flight connect promise
    dirCache,               \* this.dirCache: key -> set of directories
    lastHostKeyValidation,  \* this.lastHostKeyValidation: key -> result
    attempts,               \* every _createConnection call: its transport and promise
    calls,                  \* every getConnection call and where it stands
    \* ---- HostTrustStore / configuration --------------------------------
    entries,                \* this.state.entries: host:port -> trusted entry
    persisted,              \* the entries in the trust store file
    policy,                 \* security.hostKeyPolicy
    lastOp,                 \* the last direct call of the trust store and what it returned
    \* ---- CredentialStore -----------------------------------------------
    secrets,                \* context.secrets: secret key -> stored value
    didNotifyMigration,     \* this.didNotifyMigration
    credCalls,              \* every resolve / migrate call and where it stands
    \* ---- Extension: transfer operations -------------------------------
    safety,                 \* getSafetyConfig(): blockPathTraversal, blockCriticalDeletes
    taskOps,                \* for every queue item, what its task closure does
    issued,                 \* the transport calls of the latest operation or task: [op, path, base]
    written,                \* the local paths the latest download writes
    direct,                 \* the downloads in flight (they run outside the queue)
    lastResult,             \* what the latest operation call returned
    saver,                  \* automatic uploads of one file: clock, operationDedupe, contents
    \* ---- Path guard called directly ------------------------------------
    guard,                  \* one call of a security/pathGuard.js function: arguments and result
    \* ---- ConnectionManager: shutdown, directories, pre-connect ---------
    closers,                \* every closeConnection / closeAll / dispose call and where it stands
    cleanupInterval,        \* this.cleanupInterval is set (the idle sweep timer runs)
    dirCalls,               \* every ensureDir call and where it stands
    preCalls,               \* every preConnectAll call and where it stands
    trustNow                \* every trustHostKeyNow call, with its disposable transport

queueVars == <<concurrency, queue, activeCount, items, tokenCancelled, clearOutcome>>

connVars == <<connections, connecting, dirCache, lastHostKeyValidation, attempts, calls>>

trustVars == <<entries, persisted, policy, lastOp>>

credVars == <<secrets, didNotifyMigration, credCalls>>

extVars == <<safety, taskOps, issued, written, direct, lastResult, saver>>

guardVars == <<guard>>

mgrVars == <<closers, cleanupInterval, dirCalls, preCalls, trustNow>>

sideVars == <<guardVars, mgrVars>>

\* The components around the queue, pool and trust store (further below).
appVars == <<credVars, extVars, sideVars>>

vars == <<queueVars, connVars, trustVars, appVars>>

Max(a, b) == IF a >= b THEN a ELSE b

(***************************************************************************)
(*                            TransferQueue                                *)
(***************************************************************************)

\* Bounds of the queue model.
MaxItems == 3

\* Values passed as the concurrency option and to setConcurrency
\* (0 stands for a missing or non-numeric value).
ConcurrencyValues == {0, 1, 2}

NoToken == "none"

\* Two cancellation tokens.  "tokD" has the shape of createNoopToken and of
\* the editor's tokens: onCancellationRequested returns an object
\* { dispose }.  "tokF" returns a plain unsubscribe function.
Tokens == {"tokD", "tokF"}

TokenKind(t) ==
    IF t = "tokD" THEN "disposable" ELSE IF t = "tokF" THEN "function" ELSE "none"

\* What enqueue stores in item.disposeCancel: the return value of
\* token.onCancellationRequested, or null without a token.
DisposeCancelOf(t) ==
    IF t = NoToken THEN "null" ELSE TokenKind(t)

\* `item.disposeCancel?.()`: optional call.  null is skipped, a function is
\* called (and unsubscribes the listener), any other value is not callable
\* and the call throws a TypeError.
OptionalCallThrows(dc) == dc = "disposable"

\* A promise settles once: later resolve/reject calls are ignored.
Settle(future, outcome) == IF future = "pending" THEN outcome ELSE future

\* Math.max(1, Number(value) || 1)
ClampConcurrency(value) == Max(1, IF value = 0 THEN 1 ELSE value)

NewItem(t) ==
    [ token         |-> t,
      started       |-> FALSE,
      canceled      |-> FALSE,
      disposeCancel |-> DisposeCancelOf(t),
      listening     |-> t # NoToken,     \* cancel callback registered on the token
      future        |-> "pending",       \* pending | resolved | failed | OPERATION_CANCELED | cleared
      task          |-> "idle",          \* idle | running | ok | err
      finished      |-> FALSE ]          \* the .finally handler has run

\* Mutant of CanAdmit: the cap test is off by one.
CanAdmitOffByOne(active, conc, q) == active <= conc /\ Len(q) > 0

\* The admission test of _drain's while loop.
CanAdmit(active, conc, q) == active < conc /\ Len(q) > 0

\* Mutant of Drain: the loop takes the newest queued item first.
RECURSIVE DrainNewestFirst(_, _, _, _)
DrainNewestFirst(q, active, conc, its) ==
    IF ~CanAdmit(active, conc, q)
    THEN [queue |-> q, activeCount |-> active, items |-> its]
    ELSE LET id == q[Len(q)]
             rest == SubSeq(q, 1, Len(q) - 1) IN
         IF its[id].canceled
         THEN DrainNewestFirst(rest, active, conc, its)
         ELSE DrainNewestFirst(rest, active + 1, conc,
                               [its EXCEPT ![id].started = TRUE])

\* _drain(): the state <<queue, activeCount, items>> after the loop.
RECURSIVE Drain(_, _, _, _)
Drain(q, active, conc, its) ==
    IF ~CanAdmit(active, conc, q)
    THEN [queue |-> q, activeCount |-> active, items |-> its]
    ELSE LET id == Head(q) IN
         IF its[id].canceled
         THEN Drain(Tail(q), active, conc, its)
         ELSE Drain(Tail(q), active + 1, conc,
                    [its EXCEPT ![id].started = TRUE])

RemoveItem(q, id) == SelectSeq(q, LAMBDA x : x # id)

InitQueue ==
    /\ concurrency \in {ClampConcurrency(v) : v \in ConcurrencyValues}
    /\ queue = <<>>
    /\ activeCount = 0
    /\ items = <<>>
    /\ tokenCancelled = [t \in Tokens |-> FALSE]
    /\ clearOutcome = "none"

\* Mutant of AlreadyCanceled: enqueue does not look at the token's flag.
AlreadyCanceledUnchecked(t) == FALSE

\* enqueue's early exit: `token && token.isCancellationRequested`
AlreadyCanceled(t) == t # NoToken /\ tokenCancelled[t]

\* enqueue(task, {token}): what it does to the queue.
EnqueueTask(t) ==
    /\ Len(items) < MaxItems
    /\ LET id == Len(items) + 1 IN
       IF AlreadyCanceled(t)
       THEN /\ items' = Append(items, [NewItem(t) EXCEPT
                                          !.future = "OPERATION_CANCELED",
                                          !.disposeCancel = "null",
                                          !.listening = FALSE])
            /\ UNCHANGED <<queue, activeCount>>
       ELSE LET d == Drain(Append(queue, id), activeCount, concurrency,
                           Append(items, NewItem(t))) IN
            /\ queue' = d.queue
            /\ activeCount' = d.activeCount
            /\ items' = d.items
    /\ clearOutcome' = "none"
    /\ UNCHANGED <<concurrency, tokenCancelled>>

\* enqueue(task, {token}) for a task the model does not look into.
Enqueue(t) == EnqueueTask(t) /\ UNCHANGED <<connVars, trustVars, appVars>>

\* Mutant of SetConcurrency: the cap is set but _drain() is not called.
SetConcurrencyNoDrain(value) ==
    /\ concurrency' = ClampConcurrency(value)
    /\ clearOutcome' = "none"
    /\ UNCHANGED <<queue, activeCount, items, tokenCancelled, connVars, trustVars, appVars>>

\* setConcurrency(value)
SetConcurrency(value) ==
    /\ LET c == ClampConcurrency(value)
           d == Drain(queue, activeCount, c, items) IN
       /\ concurrency' = c
       /\ queue' = d.queue
       /\ activeCount' = d.activeCount
       /\ items' = d.items
    /\ clearOutcome' = "none"
    /\ UNCHANGED <<tokenCancelled, connVars, trustVars, appVars>>

\* The body of clearPending's loop runs for the items of the queue in order
\* and stops at the first item whose disposeCancel?.() throws.
RECURSIVE ClearLoop(_, _)
ClearLoop(q, its) ==
    IF Len(q) = 0
    THEN [queue |-> q, items |-> its, outcome |-> "returned"]
    ELSE LET id == Head(q)
             rejected == [its EXCEPT ![id].future = Settle(@, "cleared")] IN
         IF OptionalCallThrows(its[id].disposeCancel)
         THEN [queue |-> Tail(q), items |-> rejected, outcome |-> "threw"]
         ELSE ClearLoop(Tail(q), [rejected EXCEPT ![id].listening = FALSE])

\* clearPending(reason)
ClearPending ==
    /\ LET r == ClearLoop(queue, items) IN
       /\ queue' = r.queue
       /\ items' = r.items
       /\ clearOutcome' = r.outcome
    /\ UNCHANGED <<concurrency, activeCount, tokenCancelled, connVars, trustVars, appVars>>

\* Mutant of CancelCallback: the item is marked and rejected but stays queued.
CancelCallbackKeepsQueued(q, its, id) ==
    IF its[id].started
    THEN [queue |-> q, items |-> its]
    ELSE [queue |-> q,
          items |-> [its EXCEPT ![id].canceled = TRUE,
                                ![id].future = Settle(@, "OPERATION_CANCELED")]]

\* Mutant of CancelCallback: the `if (item.started) return` test is missing.
CancelCallbackIgnoresStarted(q, its, id) ==
    [queue |-> RemoveItem(q, id),
     items |-> [its EXCEPT ![id].canceled = TRUE,
                           ![id].future = Settle(@, "OPERATION_CANCELED")]]

\* The callback enqueue registers with token.onCancellationRequested,
\* applied to item id.
CancelCallback(q, its, id) ==
    IF its[id].started
    THEN [queue |-> q, items |-> its]
    ELSE [queue |-> RemoveItem(q, id),
          items |-> [its EXCEPT ![id].canceled = TRUE,
                                ![id].future = Settle(@, "OPERATION_CANCELED")]]

RECURSIVE FireListeners(_, _, _)
FireListeners(q, its, ids) ==
    IF ids = {} THEN [queue |-> q, items |-> its]
    ELSE LET id == CHOOSE x \in ids : \A y \in ids : x <= y
             r == CancelCallback(q, its, id) IN
         FireListeners(r.queue, r.items, ids \ {id})

\* Mutant of CancelToken: the flag is set but no listener is called.
CancelTokenSilent(t) ==
    /\ ~tokenCancelled[t]
    /\ tokenCancelled' = [tokenCancelled EXCEPT ![t] = TRUE]
    /\ clearOutcome' = "none"
    /\ UNCHANGED <<queue, items, concurrency, activeCount, connVars, trustVars, appVars>>

\* The token's owner cancels it: the flag is set and every registered
\* listener runs, once.
CancelToken(t) ==
    /\ ~tokenCancelled[t]
    /\ tokenCancelled' = [tokenCancelled EXCEPT ![t] = TRUE]
    /\ LET listeners == {id \in 1..Len(items) :
                            items[id].token = t /\ items[id].listening}
           r == FireListeners(queue, items, listeners) IN
       /\ queue' = r.queue
       /\ items' = [id \in 1..Len(items) |->
                       IF id \in listeners
                       THEN [r.items[id] EXCEPT !.listening = FALSE]
                       ELSE r.items[id]]
    /\ clearOutcome' = "none"
    /\ UNCHANGED <<concurrency, activeCount, connVars, trustVars, appVars>>

\* _drain's `.then(() => item.task(item.token))`: the microtask that
\* actually calls the task function of a started item.
RunTask(id) ==
    /\ id \in 1..Len(items)
    /\ items[id].started
    /\ items[id].task = "idle"
    /\ items' = [items EXCEPT ![id].task = "running"]
    /\ clearOutcome' = "none"
    /\ UNCHANGED <<concurrency, queue, activeCount, tokenCancelled>>

\* The same for a task the model does not look into.
InvokeTask(id) == RunTask(id) /\ UNCHANGED <<connVars, trustVars, appVars>>

\* The task's promise settles and `.then(item.resolve)` / `.catch(item.reject)`
\* settles the item's future with the task's own outcome.
TaskSettles(id, ok) ==
    /\ id \in 1..Len(items)
    /\ items[id].task = "running"
    /\ items' = [items EXCEPT ![id].task = IF ok THEN "ok" ELSE "err",
                              ![id].future = Settle(@, IF ok THEN "resolved" ELSE "failed")]
    /\ clearOutcome' = "none"
    /\ UNCHANGED <<concurrency, queue, activeCount, tokenCancelled, connVars, trustVars, appVars>>

\* Mutant of Finally: the handler does not give the slot back.
FinallyKeepsSlot(id) ==
    /\ id \in 1..Len(items)
    /\ items[id].task \in {"ok", "err"}
    /\ ~items[id].finished
    /\ items' = [items EXCEPT ![id].finished = TRUE, ![id].listening = FALSE]
    /\ clearOutcome' = "none"
    /\ UNCHANGED <<queue, activeCount, concurrency, tokenCancelled, connVars, trustVars, appVars>>

\* _drain's `.finally(...)` handler of item id.
Finally(id) ==
    /\ id \in 1..Len(items)
    /\ items[id].task \in {"ok", "err"}
    /\ ~items[id].finished
    /\ LET active == Max(0, activeCount - 1)
           done == [items EXCEPT ![id].finished = TRUE] IN
       IF OptionalCallThrows(items[id].disposeCancel)
       THEN \* TypeError: the rest of the handler, _drain() included, is skipped
            /\ activeCount' = active
            /\ items' = done
            /\ UNCHANGED queue
       ELSE LET d == Drain(queue, active, concurrency,
                           [done EXCEPT ![id].listening = FALSE]) IN
            /\ activeCount' = d.activeCount
            /\ items' = d.items
            /\ queue' = d.queue
    /\ clearOutcome' = "none"
    /\ UNCHANGED <<concurrency, tokenCancelled, connVars, trustVars, appVars>>

(***************************************************************************)
(*               ConnectionManager and HostTrustStore                      *)
(***************************************************************************)

\* Bounds of the connection model: getConnection calls in SpecConn (one
\* connection key) and in SpecConnHosts (two keys on one host).
MaxCalls == 3
MaxHostCalls == 2

\* Every getConnection call starts at most one connect.
MaxAttempts == MaxCalls + MaxHostCalls

\* Server configurations; port 0 stands for a config without a port.
\* The first two have the same connection key; all three the same host:port.
SameKeyConfigs ==
    { [host |-> "h1", port |-> 0,  username |-> "u1"],
      [host |-> "h1", port |-> 22, username |-> "u1"] }

Configs == SameKeyConfigs \cup { [host |-> "h1", port |-> 22, username |-> "u2"] }

\* The configurations the trust store is asked about: a second host as well.
TrustConfigs == Configs \cup { [host |-> "h2", port |-> 22, username |-> "u1"] }

\* Host key fingerprints a server (or an impostor) may offer.
Fingerprints == {"fpA", "fpB"}

Policies == {"tofu", "strict", "off"}

\* `config.port || 22`
DefaultPort == 22
PortOf(config) == IF config.port = 0 THEN DefaultPort ELSE config.port

\* _connectionKey(config): `${host}:${port || 22}:${username}`
ConnectionKey(config) == <<config.host, PortOf(config), config.username>>

\* HostTrustStore._hostKey(config): `${host}:${port || 22}`
HostKey(config) == <<config.host, PortOf(config)>>

Keys == {ConnectionKey(c) : c \in Configs}
HostKeys == {HostKey(c) : c \in TrustConfigs}

NoAttempt == 0
\* A pooled entry {sftp, lastUsed}: its transport, and how long ago it was
\* last used (idle: Date.now() - conn.lastUsed in clock ticks, counted up to
\* one tick past the idle threshold).
Conn(a, idle) == [sftp |-> a, idle |-> idle]

NoConn == Conn(NoAttempt, 0)
\* A directory cache: a Set object and the directories in it.  owner tells
\* the Set objects apart: the transport for which _createConnection made
\* it, or, for a Set made by ensureDir, the negated number of that call.
NoCache == [present |-> FALSE, dirs |-> {}, owner |-> 0]
NewCache(owner) == [present |-> TRUE, dirs |-> {}, owner |-> owner]
NoEntry == [fingerprint |-> "none", source |-> "none"]
NoValidation == [allowed |-> TRUE, reason |-> "none", expected |-> "none", actual |-> "none"]
NoConfig == [host |-> "none", port |-> 0, username |-> "none"]
NoOp == [n |-> 0, op |-> "none", config |-> NoConfig, fingerprint |-> "none",
         policy |-> "none", result |-> NoValidation, removed |-> FALSE, persist |-> FALSE]

\* Mutant of TrustFingerprint: the entry is not stored.
TrustFingerprintForgets(ents, hostKey, fingerprint, source) == ents

\* HostTrustStore.trustFingerprint(config, fingerprint, source), with
\* hostKey = _hostKey(config): the entry is set in memory and the store is
\* written to its file (by the caller of this operator: _persist).
TrustFingerprint(ents, hostKey, fingerprint, source) ==
    [ents EXCEPT ![hostKey] = [fingerprint |-> fingerprint, source |-> source]]

\* Mutant of VerifyFingerprint: a mismatch is reported without the expected
\* and actual fingerprints.
VerifyFingerprintBareMismatch(ents, hostKey, fingerprint, pol) ==
    LET current == ents[hostKey]
        res(allowed, reason) == [result  |-> [allowed |-> allowed, reason |-> reason,
                                              expected |-> "none", actual |-> "none"],
                                 entries |-> ents, persist |-> FALSE] IN
    IF pol = "off" THEN res(TRUE, "policy_off")
    ELSE IF current = NoEntry
    THEN IF pol = "strict"
         THEN res(FALSE, "unknown_host")
         ELSE [res(TRUE, "trusted_now") EXCEPT
                  !.entries = TrustFingerprint(ents, hostKey, fingerprint, "tofu"),
                  !.persist = TRUE]
    ELSE IF current.fingerprint = fingerprint THEN res(TRUE, "match")
    ELSE res(FALSE, "mismatch")

\* Mutant of VerifyFingerprint: an unseen host is trusted and stored under
\* every policy.
VerifyFingerprintAlwaysTofu(ents, hostKey, fingerprint, pol) ==
    LET current == ents[hostKey]
        res(allowed, reason, expected, actual, e, w) ==
            [result  |-> [allowed |-> allowed, reason |-> reason,
                          expected |-> expected, actual |-> actual],
             entries |-> e, persist |-> w]
        stored == TrustFingerprint(ents, hostKey, fingerprint, "tofu") IN
    IF current = NoEntry
    THEN res(TRUE, IF pol = "off" THEN "policy_off"
                   ELSE IF pol = "strict" THEN "unknown_host" ELSE "trusted_now",
             "none", "none", stored, TRUE)
    ELSE IF pol = "off" THEN res(TRUE, "policy_off", "none", "none", ents, FALSE)
    ELSE IF current.fingerprint = fingerprint
    THEN res(TRUE, "match", "none", "none", ents, FALSE)
    ELSE res(FALSE, "mismatch", current.fingerprint, fingerprint, ents, FALSE)

\* HostTrustStore.verifyFingerprint(config, fingerprint, policy), with
\* hostKey = _hostKey(config): the returned result, the entries afterwards,
\* and whether the store file was written.
VerifyFingerprint(ents, hostKey, fingerprint, pol) ==
    LET current == ents[hostKey] IN
    IF pol = "off"
    THEN [result  |-> [allowed |-> TRUE, reason |-> "policy_off",
                       expected |-> "none", actual |-> "none"],
          entries |-> ents, persist |-> FALSE]
    ELSE IF current = NoEntry
    THEN IF pol = "strict"
         THEN [result  |-> [allowed |-> FALSE, reason |-> "unknown_host",
                            expected |-> "none", actual |-> "none"],
               entries |-> ents, persist |-> FALSE]
         ELSE [result  |-> [allowed |-> TRUE, reason |-> "trusted_now",
                            expected |-> "none", actual |-> "none"],
               entries |-> TrustFingerprint(ents, hostKey, fingerprint, "tofu"),
               persist |-> TRUE]
    ELSE IF current.fingerprint = fingerprint
    THEN [result  |-> [allowed |-> TRUE, reason |-> "match",
                       expected |-> "none", actual |-> "none"],
          entries |-> ents, persist |-> FALSE]
    ELSE [result  |-> [allowed |-> FALSE, reason |-> "mismatch",
                       expected |-> current.fingerprint, actual |-> fingerprint],
          entries |-> ents, persist |-> FALSE]

\* Mutant of VerifierAccepts: the verifier accepts whatever the store says.
VerifierAcceptsAll(result) == TRUE

\* What the closure of _createHostVerifier returns to the transport.
VerifierAccepts(result) == result.allowed

\* _wrapHostKeyError(connectionKey, error): the error the connect promise
\* is rejected with.
WrapHostKeyError(validation, error) ==
    IF validation = NoValidation \/ validation.allowed
    THEN error
    ELSE IF validation.reason = "unknown_host" THEN "hostkey_unknown"
    ELSE IF validation.reason = "mismatch" THEN "hostkey_mismatch"
    ELSE "hostkey_failed"

\* One _createConnection(config, key) call: the SftpClient it creates and
\* the promise it returns.  Of the config only the connection key and the
\* trust store's host key are kept.
\*   phase: building   awaiting _buildConnectOptions
\*          connecting sftp.connect called, host key not yet checked
\*          verified / refused   the verifier returned true / false
\*          ending     connect failed, awaiting sftp.end() in the catch
\*          resolved / rejected  the promise has settled
\*   sock:  none | open | dead (shut down, close event not yet delivered) | closed
NewAttempt(key, hostKey, caller) ==
    [ key       |-> key,
      hostKey   |-> hostKey,
      phase     |-> "building",
      offered   |-> "none",
      reason    |-> "none",
      error     |-> "none",
      sock      |-> "none",
      reactions |-> <<caller>>,   \* calls awaiting the promise, in await order
      batch     |-> 0,            \* reactions queued when the promise settled, still to run
      draining  |-> FALSE ]       \* the first of them has run

Settled(a) == attempts[a].phase \in {"resolved", "rejected"}

\* Promise reactions are microtasks: the event loop runs every continuation
\* that waits for a settled promise before it delivers the next transport
\* event (handshake, connect result, socket close).
MicrotasksDrained ==
    \A a \in 1..Len(attempts) : Settled(a) => attempts[a].reactions = <<>>

\* When a promise settles, the reactions registered on it are queued as
\* consecutive microtasks: once the first has run, the others follow with
\* nothing in between.  Before the first runs, microtasks queued earlier
\* (a new call, the continuation of another await) may still run; a call
\* that awaits the promise after it has settled queues its reaction behind.
ChainRunning(a) == attempts[a].draining /\ attempts[a].batch > 0

NoChainRunning == \A a \in 1..Len(attempts) : ~ChainRunning(a)

\* The promise of an attempt settles in phase ph (resolved or rejected).
SettlePromise(att, ph) ==
    [att EXCEPT !.phase = ph, !.batch = Len(att.reactions)]

\* The first waiting reaction of an attempt has run.
PopReaction(att) ==
    [att EXCEPT !.reactions = Tail(@),
                !.batch = IF @ > 0 THEN @ - 1 ELSE 0,
                !.draining = att.batch > 1]

\* sftp.connect has been called on the attempt's transport and has not
\* yet succeeded or failed.
TransportConnecting(a) == attempts[a].phase \in {"connecting", "verified", "refused"}

\* Mutant of IsConnectionAlive: every pooled connection is taken as alive.
IsConnectionAliveAlways(conn) == TRUE

\* _isConnectionAlive(conn)
IsConnectionAlive(conn) == attempts[conn.sftp].sock = "open"

\* sftp.end() on a transport: an open socket is shut down (its close event
\* follows later).
EndTransport(atts, a) ==
    IF atts[a].sock = "open" THEN [atts EXCEPT ![a].sock = "dead"] ELSE atts

InitTrust ==
    /\ policy \in Policies
    /\ entries \in [HostKeys -> {NoEntry, [fingerprint |-> "fpA", source |-> "manual"]}]
    /\ policy # "strict" => entries = [h \in HostKeys |-> NoEntry]
    /\ \A c \in TrustConfigs \ Configs : entries[HostKey(c)] = NoEntry
    /\ persisted = entries
    /\ lastOp = NoOp

InitConn ==
    /\ connections = [k \in Keys |-> NoConn]
    /\ connecting = [k \in Keys |-> NoAttempt]
    /\ dirCache = [k \in Keys |-> NoCache]
    /\ lastHostKeyValidation = [k \in Keys |-> NoValidation]
    /\ attempts = <<>>
    /\ calls = <<>>

\* Mutant of HasInflight: getConnection does not look at this.connecting.
HasInflightIgnored(key) == FALSE

\* `this.connecting.has(key)`
HasInflight(key) == connecting[key] # NoAttempt

SetCall(c, rec) == IF c = Len(calls) + 1 THEN Append(calls, rec) ELSE [calls EXCEPT ![c] = rec]

\* `conn.lastUsed = Date.now()`
Touch(conn) == Conn(conn.sftp, 0)

\* getConnection from `if (this.connections.has(key))` on, for call c:
\* reuse the pooled connection if it is alive, else discard it and start
\* a connect.  cing and atts are this.connecting and the attempts as the
\* code before has left them.
ReuseOrConnect(c, rec, cing, atts) ==
    LET key == rec.key
        conn == connections[key] IN
    IF conn # NoConn /\ IsConnectionAlive(conn)
    THEN /\ calls' = SetCall(c, [rec EXCEPT !.pc = "returned", !.result = conn.sftp])
         /\ connecting' = cing
         /\ attempts' = atts
         /\ connections' = [connections EXCEPT ![key] = Touch(conn)]
         /\ UNCHANGED dirCache
    ELSE /\ LET a == Len(atts) + 1
                \* _safeCloseConnection(key, conn) of a pooled dead connection
                closed == IF conn # NoConn THEN EndTransport(atts, conn.sftp) ELSE atts IN
            /\ attempts' = Append(closed, NewAttempt(key, rec.hostKey, c))
            /\ connecting' = [cing EXCEPT ![key] = a]
            /\ calls' = SetCall(c, [rec EXCEPT !.pc = "awaitOwn", !.attempt = a])
         /\ connections' = [connections EXCEPT ![key] = NoConn]
         /\ dirCache' = IF conn # NoConn THEN [dirCache EXCEPT ![key] = NoCache] ELSE dirCache

\* getConnection(config), up to its first await.
GetConnection(config) ==
    /\ NoChainRunning
    /\ LET c == Len(calls) + 1
           key == ConnectionKey(config)
           rec == [key |-> key, hostKey |-> HostKey(config), pc |-> "start",
                   attempt |-> NoAttempt, joined |-> NoAttempt,
                   result |-> NoAttempt, error |-> "none"] IN
       IF HasInflight(key)
       THEN LET a == connecting[key] IN
            /\ calls' = Append(calls, [rec EXCEPT !.pc = "awaitInflight",
                                                  !.attempt = a, !.joined = a])
            /\ attempts' = [attempts EXCEPT ![a].reactions = Append(@, c)]
            /\ UNCHANGED <<connections, connecting, dirCache>>
       ELSE ReuseOrConnect(c, rec, connecting, attempts)
    /\ UNCHANGED <<lastHostKeyValidation, queueVars, trustVars, appVars>>

\* _buildConnectOptions resolves and sftp.connect(connectOptions) is called.
BuildDone(a) ==
    /\ a \in 1..Len(attempts)
    /\ NoChainRunning
    /\ attempts[a].phase = "building"
    /\ attempts' = [attempts EXCEPT ![a].phase = "connecting"]
    /\ UNCHANGED <<connections, connecting, dirCache, lastHostKeyValidation, calls,
                   queueVars, trustVars, appVars>>

\* _buildConnectOptions rejects (credential resolution or key file): the
\* catch block calls sftp.end() and waits for it.
BuildFails(a) ==
    /\ a \in 1..Len(attempts)
    /\ NoChainRunning
    /\ attempts[a].phase = "building"
    /\ attempts' = [attempts EXCEPT ![a].phase = "ending", ![a].error = "credentials"]
    /\ UNCHANGED <<connections, connecting, dirCache, lastHostKeyValidation, calls,
                   queueVars, trustVars, appVars>>

\* During the handshake the transport calls connectOptions.hostVerifier with
\* the fingerprint the peer offers (installed when the policy is not off).
HostKeyOffered(a, fingerprint) ==
    /\ a \in 1..Len(attempts)
    /\ MicrotasksDrained
    /\ attempts[a].phase = "connecting"
    /\ policy # "off"
    /\ LET v == VerifyFingerprint(entries, attempts[a].hostKey, fingerprint, policy) IN
       /\ lastHostKeyValidation' =
              [lastHostKeyValidation EXCEPT ![attempts[a].key] = v.result]
       /\ entries' = v.entries
       /\ persisted' = IF v.persist THEN v.entries ELSE persisted
       /\ attempts' = [attempts EXCEPT
              ![a].offered = fingerprint,
              ![a].reason = v.result.reason,
              ![a].phase = IF VerifierAccepts(v.result) THEN "verified" ELSE "refused"]
    /\ UNCHANGED <<connections, connecting, dirCache, calls, policy, lastOp, queueVars, appVars>>

\* connectOptions.retries: after a failed handshake the transport may
\* connect again within the same sftp.connect call, up to retryTimes times
\* (the model does not count them).
RetryHandshake(a) ==
    /\ a \in 1..Len(attempts)
    /\ MicrotasksDrained
    /\ attempts[a].phase \in {"verified", "refused"}
    /\ attempts' = [attempts EXCEPT ![a].phase = "connecting"]
    /\ UNCHANGED <<connections, connecting, dirCache, lastHostKeyValidation, calls,
                   queueVars, trustVars, appVars>>

\* sftp.connect resolves: the rest of _createConnection's try block.
ConnectSucceeds(a) ==
    /\ a \in 1..Len(attempts)
    /\ MicrotasksDrained
    /\ \/ attempts[a].phase = "verified"
       \/ attempts[a].phase = "connecting" /\ policy = "off"
    /\ LET key == attempts[a].key IN
       /\ lastHostKeyValidation' = [lastHostKeyValidation EXCEPT ![key] = NoValidation]
       /\ connections' = [connections EXCEPT ![key] = Conn(a, 0)]
       /\ dirCache' = [dirCache EXCEPT ![key] = NewCache(a)]
    /\ attempts' = [attempts EXCEPT ![a] = [SettlePromise(@, "resolved") EXCEPT !.sock = "open"]]
    /\ UNCHANGED <<connecting, calls, queueVars, trustVars, appVars>>

\* sftp.connect rejects (refused host key, authentication, timeout, ...):
\* the catch block calls sftp.end() and waits for it.
ConnectFails(a) ==
    /\ a \in 1..Len(attempts)
    /\ MicrotasksDrained
    /\ TransportConnecting(a)
    /\ attempts' = [attempts EXCEPT ![a].phase = "ending", ![a].error = "transport"]
    /\ UNCHANGED <<connections, connecting, dirCache, lastHostKeyValidation, calls,
                   queueVars, trustVars, appVars>>

\* sftp.end() of the catch block settles: `throw this._wrapHostKeyError(...)`.
EndSettles(a) ==
    /\ a \in 1..Len(attempts)
    /\ NoChainRunning
    /\ attempts[a].phase = "ending"
    /\ attempts' = [attempts EXCEPT
           ![a] = [SettlePromise(@, "rejected") EXCEPT
                      !.error = WrapHostKeyError(lastHostKeyValidation[attempts[a].key], @)]]
    /\ UNCHANGED <<connections, connecting, dirCache, lastHostKeyValidation, calls,
                   queueVars, trustVars, appVars>>

\* The continuation of call c after its await: the connect promise it waits
\* for has settled and c is the first reaction still to run.
Resume(c) ==
    /\ c \in 1..Len(calls)
    /\ calls[c].pc \in {"awaitOwn", "awaitInflight"}
    /\ LET a == calls[c].attempt
           key == calls[c].key
           atts == [attempts EXCEPT ![a] = PopReaction(@)]
           cleared == [connecting EXCEPT ![key] = NoAttempt] IN
       /\ Settled(a)
       /\ Head(attempts[a].reactions) = c
       /\ \A b \in 1..Len(attempts) : ChainRunning(b) => b = a
       /\ IF attempts[a].phase = "resolved"
          THEN \* `return await ...`; the creator's finally deletes the key
               /\ calls' = [calls EXCEPT ![c].pc = "returned", ![c].result = a]
               /\ connecting' = IF calls[c].pc = "awaitOwn" THEN cleared ELSE connecting
               /\ attempts' = atts
               /\ UNCHANGED <<connections, dirCache>>
          ELSE IF calls[c].pc = "awaitOwn"
          THEN \* catch: delete, rethrow; finally: delete
               /\ calls' = [calls EXCEPT ![c].pc = "threw", ![c].error = attempts[a].error]
               /\ connecting' = cleared
               /\ attempts' = atts
               /\ UNCHANGED <<connections, dirCache>>
          ELSE \* a waiter: `catch (e) { this.connecting.delete(key); }`, then on
               ReuseOrConnect(c, calls[c], cleared, atts)
    /\ UNCHANGED <<lastHostKeyValidation, queueVars, trustVars, appVars>>

\* The transport of a pooled connection drops (peer, network): its socket
\* is destroyed; the close event is delivered later.
SocketDies(a) ==
    /\ a \in 1..Len(attempts)
    /\ MicrotasksDrained
    /\ attempts[a].sock = "open"
    /\ attempts' = [attempts EXCEPT ![a].sock = "dead"]
    /\ UNCHANGED <<connections, connecting, dirCache, lastHostKeyValidation, calls,
                   queueVars, trustVars, appVars>>

\* The transport of attempt a emits close (or end): _handleConnectionClose(key).
CloseEvent(a) ==
    /\ a \in 1..Len(attempts)
    /\ MicrotasksDrained
    /\ attempts[a].sock = "dead"
    /\ attempts' = [attempts EXCEPT ![a].sock = "closed"]
    /\ LET key == attempts[a].key IN
       IF connections[key] # NoConn
       THEN /\ connections' = [connections EXCEPT ![key] = NoConn]
            /\ dirCache' = [dirCache EXCEPT ![key] = NoCache]
       ELSE UNCHANGED <<connections, dirCache>>
    /\ UNCHANGED <<connecting, lastHostKeyValidation, calls, queueVars, trustVars, appVars>>

\* Steps of the connection manager for one connection key; every
\* sftp.connect makes one handshake.
NextConn ==
    \/ \E config \in SameKeyConfigs : Len(calls) < MaxCalls /\ GetConnection(config)
    \/ \E a \in 1..MaxAttempts : BuildDone(a)
    \/ \E a \in 1..MaxAttempts : BuildFails(a)
    \/ \E a \in 1..MaxAttempts, f \in Fingerprints : HostKeyOffered(a, f)
    \/ \E a \in 1..MaxAttempts : ConnectSucceeds(a)
    \/ \E a \in 1..MaxAttempts : ConnectFails(a)
    \/ \E a \in 1..MaxAttempts : EndSettles(a)
    \/ \E c \in 1..MaxAttempts : Resume(c)
    \/ \E a \in 1..MaxAttempts : SocketDies(a)
    \/ \E a \in 1..MaxAttempts : CloseEvent(a)

\* The same steps with calls for both users of the host, and with
\* handshakes retried by the transport.
NextConnHosts ==
    \/ \E config \in Configs : Len(calls) < MaxHostCalls /\ GetConnection(config)
    \/ \E a \in 1..MaxAttempts : BuildDone(a)
    \/ \E a \in 1..MaxAttempts : BuildFails(a)
    \/ \E a \in 1..MaxAttempts, f \in Fingerprints : HostKeyOffered(a, f)
    \/ \E a \in 1..MaxAttempts : RetryHandshake(a)
    \/ \E a \in 1..MaxAttempts : ConnectSucceeds(a)
    \/ \E a \in 1..MaxAttempts : ConnectFails(a)
    \/ \E a \in 1..MaxAttempts : EndSettles(a)
    \/ \E c \in 1..MaxAttempts : Resume(c)
    \/ \E a \in 1..MaxAttempts : SocketDies(a)
    \/ \E a \in 1..MaxAttempts : CloseEvent(a)

(***************************************************************************)
(*                  HostTrustStore called directly                         *)
(***************************************************************************)

\* Bound: number of direct calls of the trust store.
MaxTrustOps == 3

\* verifyFingerprint(config, fingerprint, policy)
VerifyFingerprintCall(config, fingerprint, pol) ==
    /\ lastOp.n < MaxTrustOps
    /\ LET v == VerifyFingerprint(entries, HostKey(config), fingerprint, pol) IN
       /\ entries' = v.entries
       /\ persisted' = IF v.persist THEN v.entries ELSE persisted
       /\ lastOp' = [n |-> lastOp.n + 1, op |-> "verify", config |-> config,
                     fingerprint |-> fingerprint, policy |-> pol,
                     result |-> v.result, removed |-> FALSE, persist |-> v.persist]
    /\ UNCHANGED <<policy, queueVars, connVars, appVars>>

\* trustFingerprint(config, fingerprint) with the default source 'manual'
\* (the "trust host key" command, trustHostKeyNow).
TrustFingerprintCall(config, fingerprint) ==
    /\ lastOp.n < MaxTrustOps
    /\ entries' = TrustFingerprint(entries, HostKey(config), fingerprint, "manual")
    /\ persisted' = entries'
    /\ lastOp' = [NoOp EXCEPT !.n = lastOp.n + 1, !.op = "trust", !.config = config,
                               !.fingerprint = fingerprint, !.persist = TRUE]
    /\ UNCHANGED <<policy, queueVars, connVars, appVars>>

\* removeTrust(hostKey)
RemoveTrust(hostKey) ==
    /\ lastOp.n < MaxTrustOps
    /\ LET found == entries[hostKey] # NoEntry IN
       /\ entries' = IF found THEN [entries EXCEPT ![hostKey] = NoEntry] ELSE entries
       /\ persisted' = IF found THEN entries' ELSE persisted
       /\ lastOp' = [NoOp EXCEPT !.n = lastOp.n + 1, !.op = "remove",
                                  !.config = [host |-> hostKey[1], port |-> hostKey[2],
                                              username |-> "none"],
                                  !.removed = found, !.persist = found]
    /\ UNCHANGED <<policy, queueVars, connVars, appVars>>

NextTrust ==
    \/ \E c \in TrustConfigs, f \in Fingerprints, pol \in Policies :
          VerifyFingerprintCall(c, f, pol)
    \/ \E c \in TrustConfigs, f \in Fingerprints : TrustFingerprintCall(c, f)
    \/ \E h \in HostKeys : RemoveTrust(h)

\* The names lastOp.op takes for a call that ended because _persist threw.
ThrownOps == {"verify_throws", "trust_throws", "remove_throws"}

\* verifyFingerprint(config, fingerprint, policy) on an unseen host under
\* tofu, when fs.writeFileSync throws in _persist: trustFingerprint has set
\* the entry in memory already, the file is as it was, and the error leaves
\* verifyFingerprint.
VerifyFingerprintThrows(config, fingerprint, pol) ==
    /\ lastOp.n < MaxTrustOps
    /\ LET v == VerifyFingerprint(entries, HostKey(config), fingerprint, pol) IN
       /\ v.persist
       /\ entries' = v.entries
       /\ lastOp' = [NoOp EXCEPT !.n = lastOp.n + 1, !.op = "verify_throws",
                                  !.config = config, !.fingerprint = fingerprint,
                                  !.policy = pol]
    /\ UNCHANGED <<persisted, policy, queueVars, connVars, appVars>>

\* trustFingerprint(config, fingerprint) when fs.writeFileSync throws in
\* _persist: the assignment to this.state.entries[key] has been made.
TrustFingerprintThrows(config, fingerprint) ==
    /\ lastOp.n < MaxTrustOps
    /\ entries' = TrustFingerprint(entries, HostKey(config), fingerprint, "manual")
    /\ lastOp' = [NoOp EXCEPT !.n = lastOp.n + 1, !.op = "trust_throws",
                               !.config = config, !.fingerprint = fingerprint]
    /\ UNCHANGED <<persisted, policy, queueVars, connVars, appVars>>

\* removeTrust(hostKey) of a stored entry when fs.writeFileSync throws in
\* _persist: the entry has been deleted from this.state.entries.
RemoveTrustThrows(hostKey) ==
    /\ lastOp.n < MaxTrustOps
    /\ entries[hostKey] # NoEntry
    /\ entries' = [entries EXCEPT ![hostKey] = NoEntry]
    /\ lastOp' = [NoOp EXCEPT !.n = lastOp.n + 1, !.op = "remove_throws",
                               !.config = [host |-> hostKey[1], port |-> hostKey[2],
                                           username |-> "none"]]
    /\ UNCHANGED <<persisted, policy, queueVars, connVars, appVars>>

\* The trust store called directly, on a disk whose writes may fail.
NextTrustDisk ==
    \/ \E c \in TrustConfigs, f \in Fingerprints, pol \in Policies :
          VerifyFingerprintCall(c, f, pol)
    \/ \E c \in TrustConfigs, f \in Fingerprints : TrustFingerprintCall(c, f)
    \/ \E h \in HostKeys : RemoveTrust(h)
    \/ \E c \in TrustConfigs, f \in Fingerprints, pol \in Policies :
          VerifyFingerprintThrows(c, f, pol)
    \/ \E c \in TrustConfigs, f \in Fingerprints : TrustFingerprintThrows(c, f)
    \/ \E h \in HostKeys : RemoveTrustThrows(h)

(***************************************************************************)
(*                           CredentialStore                               *)
(***************************************************************************)

\* Bound: number of resolve / migrateFromPlaintext / migrateAll calls.
MaxCredCalls == 2

\* A value that is not there (undefined) and the empty string.
NoValue == "undefined"
EmptyString == ""

\* `typeof v === 'string' && v.length > 0`
NonEmpty(v) == v # NoValue /\ v # EmptyString

SecretFields == <<"password", "passphrase">>

\* Server configs with their plaintext secrets.  The first two name the
\* same server (port omitted / port 22) with different plaintext.
CredConfigs ==
    { [host |-> "h1", port |-> 0,  username |-> "u1", password |-> "p1", passphrase |-> EmptyString],
      [host |-> "h1", port |-> 22, username |-> "u1", password |-> "p2", passphrase |-> "q2"],
      [host |-> "h2", port |-> 22, username |-> "u1", password |-> NoValue, passphrase |-> "q3"] }

\* The list `configs` given to migrateAll: the servers of sftp.json.
AllCredConfigs ==
    << [host |-> "h1", port |-> 0,  username |-> "u1", password |-> "p1", passphrase |-> EmptyString],
       [host |-> "h2", port |-> 22, username |-> "u1", password |-> NoValue, passphrase |-> "q3"] >>

WorkspaceId == "ws"

\* _secretKey(workspaceId, config, field)
SecretKey(workspaceId, config, field) ==
    <<workspaceId, config.host, PortOf(config), config.username, field>>

SecretKeys ==
    {SecretKey(WorkspaceId, c, SecretFields[i]) : c \in CredConfigs, i \in 1..Len(SecretFields)}

\* The options objects the calls are made with; "unset" is an absent option.
ResolveOptions ==
    { [autoMigrate |-> "unset", overwrite |-> "unset"],
      [autoMigrate |-> "true",  overwrite |-> "unset"],
      [autoMigrate |-> "false", overwrite |-> "unset"],
      [autoMigrate |-> "true",  overwrite |-> "true"] }

MigrateOptions ==
    { [autoMigrate |-> "unset", overwrite |-> "unset"],
      [autoMigrate |-> "unset", overwrite |-> "true"],
      [autoMigrate |-> "unset", overwrite |-> "false"] }

\* resolve: `options.autoMigrate !== false`, `options.overwrite === true`
ResolveAutoMigrate(options) == options.autoMigrate # "false"
ResolveOverwrite(options) == options.overwrite = "true"

\* migrateFromPlaintext: `options.overwrite !== false`
MigrateOverwrite(options) == options.overwrite # "false"

\* The store is constructed with the extension context (this.context).
HasContext == TRUE

\* Mutant of ResolveField: a stored secret is used only when the config has
\* no plaintext.
ResolveFieldPrefersPlain(secretValue, plainValue, autoMigrate, overwrite) ==
    IF NonEmpty(plainValue) /\ autoMigrate /\ HasContext
    THEN [value |-> plainValue, store |-> TRUE]
    ELSE IF NonEmpty(secretValue)
    THEN [value |-> secretValue, store |-> FALSE]
    ELSE [value |-> plainValue, store |-> FALSE]

\* Mutant of ResolveField: the plaintext is used but never stored.
ResolveFieldNeverStores(secretValue, plainValue, autoMigrate, overwrite) ==
    IF NonEmpty(secretValue) /\ ~overwrite
    THEN [value |-> secretValue, store |-> FALSE]
    ELSE IF NonEmpty(secretValue) /\ overwrite /\ ~NonEmpty(plainValue)
    THEN [value |-> secretValue, store |-> FALSE]
    ELSE [value |-> plainValue, store |-> FALSE]

\* One iteration of resolve's loop, given the value secrets.get returned:
\* the value put into the result and whether secrets.store is called (the
\* field is then listed as migrated).
ResolveField(secretValue, plainValue, autoMigrate, overwrite) ==
    IF NonEmpty(secretValue) /\ ~overwrite
    THEN [value |-> secretValue, store |-> FALSE]
    ELSE IF NonEmpty(plainValue) /\ autoMigrate /\ HasContext
    THEN [value |-> plainValue, store |-> TRUE]
    ELSE IF NonEmpty(secretValue) /\ overwrite
    THEN [value |-> secretValue, store |-> FALSE]
    ELSE [value |-> plainValue, store |-> FALSE]

\* One iteration of migrateFromPlaintext's loop for a field that has
\* plaintext: whether secrets.store is called and counted.  The stored
\* value is read only when overwrite is off.
MigrateField(secretValue, plainValue, overwrite) ==
    IF ~overwrite /\ NonEmpty(secretValue) THEN FALSE ELSE TRUE

\* The fields of a config that migrateFromPlaintext does not skip at once:
\* those with plaintext, in loop order.
RECURSIVE MigrateTodo(_, _)
MigrateTodo(config, i) ==
    IF i > Len(SecretFields) THEN <<>>
    ELSE (IF NonEmpty(config[SecretFields[i]]) /\ HasContext
          THEN <<[config |-> config, field |-> SecretFields[i]]>>
          ELSE <<>>) \o MigrateTodo(config, i + 1)

\* migrateAll: the configs one after the other.
RECURSIVE MigrateAllTodo(_, _)
MigrateAllTodo(configs, i) ==
    IF i > Len(configs) THEN <<>>
    ELSE MigrateTodo(configs[i], 1) \o MigrateAllTodo(configs, i + 1)

NewCredCall(op, config, options, todo) ==
    [ op       |-> op,
      config   |-> config,                 \* the config argument (resolve copies it)
      options  |-> options,
      todo     |-> todo,                   \* loop iterations still to run
      result   |-> [password |-> config.password, passphrase |-> config.passphrase],
      migratedFields |-> {},
      count    |-> 0,                      \* migratedCount / migrated
      stores   |-> 0,                      \* secrets.store calls made by this call
      done     |-> todo = <<>> ]

CredIdle ==
    /\ secrets = [k \in SecretKeys |-> NoValue]
    /\ didNotifyMigration = FALSE
    /\ credCalls = <<>>

\* Secret storage as a session finds it: empty, or holding values stored
\* for the first server in an earlier session.
InitCred ==
    /\ secrets \in [SecretKeys -> {NoValue, "s0"}]
    /\ \A k \in SecretKeys : k[2] # "h1" => secrets[k] = NoValue
    /\ didNotifyMigration = FALSE
    /\ credCalls = <<>>

\* resolve(config, workspaceId, options), up to its first await.
Resolve(config, options) ==
    /\ Len(credCalls) < MaxCredCalls
    /\ credCalls' = Append(credCalls,
           NewCredCall("resolve", config, options,
               [i \in 1..Len(SecretFields) |-> [config |-> config, field |-> SecretFields[i]]]))
    /\ UNCHANGED <<secrets, didNotifyMigration, queueVars, connVars, trustVars, extVars, sideVars>>

\* migrateFromPlaintext(config, workspaceId, options)
MigrateFromPlaintext(config, options) ==
    /\ Len(credCalls) < MaxCredCalls
    /\ credCalls' = Append(credCalls,
           NewCredCall("migrate", config, options, MigrateTodo(config, 1)))
    /\ UNCHANGED <<secrets, didNotifyMigration, queueVars, connVars, trustVars, extVars, sideVars>>

\* migrateAll(configs, workspaceId, options)
MigrateAll(options) ==
    /\ Len(credCalls) < MaxCredCalls
    /\ credCalls' = Append(credCalls,
           NewCredCall("migrateAll", AllCredConfigs[1], options,
                       MigrateAllTodo(AllCredConfigs, 1)))
    /\ UNCHANGED <<secrets, didNotifyMigration, queueVars, connVars, trustVars, extVars, sideVars>>

\* The next loop iteration of call c: the secret storage operations of the
\* iteration take effect and the code up to the next await runs; after the
\* last iteration the call returns.
CredStep(c) ==
    /\ c \in 1..Len(credCalls)
    /\ credCalls[c].todo # <<>>
    /\ LET call == credCalls[c]
           e == Head(call.todo)
           key == SecretKey(WorkspaceId, e.config, e.field)
           plainValue == e.config[e.field]
           last == Len(call.todo) = 1 IN
       IF call.op = "resolve"
       THEN LET r == ResolveField(secrets[key], plainValue,
                                  ResolveAutoMigrate(call.options),
                                  ResolveOverwrite(call.options))
                migrated == IF r.store THEN call.migratedFields \cup {e.field}
                            ELSE call.migratedFields IN
            /\ secrets' = IF r.store THEN [secrets EXCEPT ![key] = plainValue] ELSE secrets
            /\ credCalls' = [credCalls EXCEPT ![c] =
                   [call EXCEPT !.todo = Tail(@),
                                !.result = [@ EXCEPT ![e.field] = r.value],
                                !.migratedFields = migrated,
                                !.stores = IF r.store THEN @ + 1 ELSE @,
                                !.done = last]]
            /\ didNotifyMigration' = (didNotifyMigration \/ (last /\ migrated # {}))
       ELSE LET store == MigrateField(secrets[key], plainValue,
                                      MigrateOverwrite(call.options)) IN
            /\ secrets' = IF store THEN [secrets EXCEPT ![key] = plainValue] ELSE secrets
            /\ credCalls' = [credCalls EXCEPT ![c] =
                   [call EXCEPT !.todo = Tail(@),
                                !.count = IF store THEN @ + 1 ELSE @,
                                !.stores = IF store THEN @ + 1 ELSE @,
                                !.done = last]]
            /\ UNCHANGED didNotifyMigration
    /\ UNCHANGED <<queueVars, connVars, trustVars, extVars, sideVars>>

NextCred ==
    \/ \E c \in CredConfigs, o \in ResolveOptions : Resolve(c, o)
    \/ \E c \in CredConfigs, o \in MigrateOptions : MigrateFromPlaintext(c, o)
    \/ \E o \in MigrateOptions : MigrateAll(o)
    \/ \E c \in 1..MaxCredCalls : CredStep(c)

(***************************************************************************)
(*                     Paths and the path guard                            *)
(***************************************************************************)

\* A path string is modelled by its segments, whether it starts with '/'
\* (abs) and whether it ends with '/' (dir).
Path(abs, segs, dir) == [abs |-> abs, segs |-> segs, dir |-> dir]

RootPath == Path(TRUE, <<>>, FALSE)

\* path.posix.normalize on the segments: '.' is dropped, '..' removes the
\* segment before it, is dropped at the root of an absolute path and is
\* kept at the start of a relative one.
RECURSIVE Collapse(_, _, _)
Collapse(segs, acc, abs) ==
    IF segs = <<>> THEN acc
    ELSE LET h == Head(segs) IN
         IF h = "." THEN Collapse(Tail(segs), acc, abs)
         ELSE IF h = ".."
         THEN IF acc # <<>> /\ acc[Len(acc)] # ".."
              THEN Collapse(Tail(segs), SubSeq(acc, 1, Len(acc) - 1), abs)
              ELSE IF abs THEN Collapse(Tail(segs), acc, abs)
              ELSE Collapse(Tail(segs), Append(acc, ".."), abs)
         ELSE Collapse(Tail(segs), Append(acc, h), abs)

\* path.posix.normalize: a trailing '/' is kept (except on the root).
PosixNormalize(p) ==
    LET segs == Collapse(p.segs, <<>>, p.abs) IN
    Path(p.abs, segs, p.dir /\ segs # <<>>)

\* path.posix.join(a, b): the two strings joined by '/' and normalized.
PosixJoin(a, b) ==
    PosixNormalize(Path(a.abs, a.segs \o b.segs, IF b.segs = <<>> THEN a.dir ELSE b.dir))

\* path.posix.dirname of a normalized absolute path.
PosixDirname(p) ==
    Path(p.abs, IF p.segs = <<>> THEN <<>> ELSE SubSeq(p.segs, 1, Len(p.segs) - 1), FALSE)

\* The length of the longest common prefix of two segment sequences.
RECURSIVE CommonPrefix(_, _)
CommonPrefix(a, b) ==
    IF a = <<>> \/ b = <<>> \/ Head(a) # Head(b) THEN 0
    ELSE 1 + CommonPrefix(Tail(a), Tail(b))

\* path.posix.relative(from, to) for two normalized absolute paths: one
\* '..' for every segment of `from` below the common prefix, then the rest
\* of `to`.
PosixRelative(from, to) ==
    LET k == CommonPrefix(from.segs, to.segs) IN
    [i \in 1..(Len(from.segs) - k) |-> ".."] \o SubSeq(to.segs, k + 1, Len(to.segs))

\* The segment names of the model whose first two characters are dots:
\* the parent directory and an ordinary name such as "..f".
DotDotNames == {"..", "..f"}

\* `relative.startsWith('..')`: a test on the characters of the string,
\* i.e. on the first characters of the first segment.
StartsWithDotDot(rel) == rel # <<>> /\ rel[1] \in DotDotNames

\* normalizeRemotePath(inputPath)
NormalizeRemotePath(p) ==
    LET normalized == PosixNormalize(p) IN
    IF ~normalized.abs
    THEN PosixNormalize(Path(TRUE, normalized.segs, normalized.dir))
    ELSE normalized

\* assertRemotePathSafe(remoteBase, remotePath, {enabled}): ok is FALSE when
\* it throws PATH_GUARD_REMOTE_TRAVERSAL, else path is what it returns.
AssertRemotePathSafe(remoteBase, remotePath, enabled) ==
    LET normalizedBase == NormalizeRemotePath(remoteBase)
        normalizedTarget == NormalizeRemotePath(remotePath) IN
    IF ~enabled THEN [ok |-> TRUE, path |-> normalizedTarget]
    ELSE [ok   |-> ~StartsWithDotDot(PosixRelative(normalizedBase, normalizedTarget)),
          path |-> normalizedTarget]

\* path.resolve of a local path: absolute, normalized, no trailing separator.
PathResolve(p) == Path(TRUE, Collapse(p.segs, <<>>, TRUE), FALSE)

\* assertLocalPathInsideWorkspace(workspaceRoot, localPath, {enabled})
AssertLocalPathInsideWorkspace(workspaceRoot, localPath, enabled) ==
    LET resolvedRoot == PathResolve(workspaceRoot)
        resolvedPath == PathResolve(localPath) IN
    IF ~enabled THEN [ok |-> TRUE, path |-> resolvedPath]
    ELSE [ok   |-> ~StartsWithDotDot(PosixRelative(resolvedRoot, resolvedPath)),
          path |-> resolvedPath]

\* safety.criticalRemotePaths
CriticalRemotePaths == { Path(TRUE, <<>>, FALSE), Path(TRUE, <<"m">>, FALSE) }

\* Mutant of IsCriticalRemotePath: no path is critical.
IsCriticalRemotePathNever(remotePath, criticalPaths) == FALSE

\* Mutant of IsCriticalRemotePath: a path beneath a critical path is
\* critical as well (prefix match).
IsCriticalRemotePathPrefix(remotePath, criticalPaths) ==
    LET target == NormalizeRemotePath(remotePath) IN
    \E item \in criticalPaths :
        LET segs == NormalizeRemotePath(item).segs IN
        Len(segs) <= Len(target.segs) /\ SubSeq(target.segs, 1, Len(segs)) = segs

\* isCriticalRemotePath(remotePath, criticalPaths)
IsCriticalRemotePath(remotePath, criticalPaths) ==
    LET target == NormalizeRemotePath(remotePath) IN
    \E item \in criticalPaths : NormalizeRemotePath(item) = target

\* checkDeleteSafety(remotePath) under the safety configuration saf.
CheckDeleteSafety(remotePath, saf) ==
    LET normalized == NormalizeRemotePath(remotePath) IN
    IF normalized = RootPath
    THEN [blocked |-> TRUE, normalized |-> normalized]
    ELSE IF saf.blockCriticalDeletes /\ IsCriticalRemotePath(normalized, CriticalRemotePaths)
    THEN [blocked |-> TRUE, normalized |-> normalized]
    ELSE [blocked |-> FALSE, normalized |-> normalized]

\* The workspace folder and the server configurations of sftp.json: a
\* remote base, and optionally one path mapping (local folder -> remote,
\* here written with a trailing '/').
WorkspaceRoot == Path(TRUE, <<"w">>, FALSE)

NoMapping == [local |-> <<>>, remote |-> RootPath]

ExtConfigs ==
    { [remotePath |-> Path(TRUE, <<"a">>, FALSE),
       mapping    |-> [local |-> <<"m">>, remote |-> Path(TRUE, <<"m">>, TRUE)]],
      [remotePath |-> Path(TRUE, <<>>, FALSE), mapping |-> NoMapping] }

\* Is seq a a prefix of seq b?
IsPrefix(a, b) == Len(a) <= Len(b) /\ SubSeq(b, 1, Len(a)) = a

\* getRemotePath(localPath, workspaceRoot, config): ok is FALSE when a guard
\* throws; else path is the remote path and base the base it was checked
\* against (config.remotePath or the selected mapping's remote).
GetRemotePath(localPath, workspaceRoot, config, enabled) ==
    LET guarded == AssertLocalPathInsideWorkspace(workspaceRoot, localPath, enabled)
        normalizedRelative == PosixRelative(PathResolve(workspaceRoot), guarded.path)
        selected == config.mapping # NoMapping /\ config.mapping.local # <<>>
                    /\ IsPrefix(config.mapping.local, normalizedRelative)
        remoteBase == IF selected THEN config.mapping.remote ELSE config.remotePath
        subPath == IF selected
                   THEN SubSeq(normalizedRelative, Len(config.mapping.local) + 1,
                               Len(normalizedRelative))
                   ELSE normalizedRelative
        remotePath == PosixJoin(remoteBase, Path(FALSE, subPath, FALSE))
        checked == AssertRemotePathSafe(remoteBase, remotePath, enabled) IN
    [ok   |-> guarded.ok /\ checked.ok,
     path |-> checked.path,
     base |-> NormalizeRemotePath(remoteBase)]

(***************************************************************************)
(*   ConnectionManager: shutdown, idle sweep, directories, pre-connect,    *)
(*   manual trust                                                          *)
(***************************************************************************)

\* The constructor has armed the idle sweep timer; no call has been made.
MgrIdle ==
    /\ closers = <<>>
    /\ cleanupInterval = TRUE
    /\ dirCalls = <<>>
    /\ preCalls = <<>>
    /\ trustNow = <<>>

\* Bounds of the pool specifications: getConnection calls (in SpecClose;
\* SpecPool allows MaxHostCalls of them), and calls of closeConnection /
\* closeAll / dispose.
MaxPoolCalls == 1
MaxClosers == 1

NoKey == <<>>

\* The keys with a pooled connection, and the transports pooled.
Pooled == { k \in Keys : connections[k] # NoConn }
PooledTransports == { connections[k].sftp : k \in Pooled }

\* sftp.end() is called on each of the transports in `as`.
EndAll(atts, as) ==
    [a \in 1..Len(atts) |->
        IF a \in as /\ atts[a].sock = "open" THEN [atts[a] EXCEPT !.sock = "dead"] ELSE atts[a]]

\* `this.connections.delete(key); this.dirCache.delete(key)` for the keys ks.
Evict(conns, ks) == [k \in Keys |-> IF k \in ks THEN NoConn ELSE conns[k]]
EvictCache(cache, ks) == [k \in Keys |-> IF k \in ks THEN NoCache ELSE cache[k]]

\* One closeConnection / closeAll / dispose call.
\*   transports: the transports it has called end() on
\*   waiting:    those whose Promise.race([end(), timeout]) has not settled
\*   failed:     a rejection has reached the call's await uncaught
\*   timedOut:   its hard timeout has fired
\*   pc:         awaiting | resolved | rejected
\* and, to relate the call to the getConnection calls around it:
\*   callsBefore: the number of getConnection calls made before it
\*   inflight:    the connect attempts in flight when it was made
NewCloser(op, key, transports) ==
    [op |-> op, key |-> key, transports |-> transports, waiting |-> transports,
     failed |-> FALSE, timedOut |-> FALSE, pc |-> "awaiting",
     callsBefore |-> Len(calls),
     inflight |-> { a \in 1..Len(attempts) : ~Settled(a) }]

\* No continuation of a close call is waiting to run as a microtask.
ClosersDrained ==
    \A c \in 1..Len(closers) : closers[c].pc = "awaiting" => closers[c].waiting # {}

\* Mutant of EndFailureSwallowed: a rejected end() reaches the await.
EndFailurePropagates(op) == FALSE

\* A rejection of sftp.end() is swallowed: by the try / catch around the
\* await in closeConnection, by `.catch(() => {})` in closeAll (and so in
\* dispose).
EndFailureSwallowed(op) == op \in {"closeConnection", "closeAll", "dispose"}

\* closeConnection(config), up to its await.
CloseConnection(config) ==
    /\ NoChainRunning
    /\ LET key == ConnectionKey(config)
           conn == connections[key] IN
       IF conn # NoConn
       THEN /\ connections' = Evict(connections, {key})
            /\ dirCache' = EvictCache(dirCache, {key})
            /\ attempts' = EndTransport(attempts, conn.sftp)
            /\ closers' = Append(closers, NewCloser("closeConnection", key, {conn.sftp}))
       ELSE /\ closers' = Append(closers,
                              [NewCloser("closeConnection", key, {}) EXCEPT !.pc = "resolved"])
            /\ UNCHANGED <<connections, dirCache, attempts>>
    /\ UNCHANGED <<connecting, lastHostKeyValidation, calls, cleanupInterval, dirCalls,
                   preCalls, trustNow, queueVars, trustVars, credVars, extVars, guardVars>>

\* closeAll(), up to `await Promise.all(closePromises)`: end() is called on
\* every pooled transport; the pool itself is left as it is.
CloseAllBegins(op) ==
    /\ attempts' = EndAll(attempts, PooledTransports)
    /\ closers' = Append(closers, NewCloser(op, NoKey, PooledTransports))
    /\ UNCHANGED <<connections, connecting, dirCache, lastHostKeyValidation, calls,
                   dirCalls, preCalls, trustNow, queueVars, trustVars, credVars, extVars,
                   guardVars>>

CloseAll ==
    /\ NoChainRunning
    /\ CloseAllBegins("closeAll")
    /\ UNCHANGED cleanupInterval

\* dispose(): clearInterval, `this.cleanupInterval = null`, then closeAll().
Dispose ==
    /\ NoChainRunning
    /\ cleanupInterval' = FALSE
    /\ CloseAllBegins("dispose")

\* The end() promise of transport a, as awaited by close call c, settles.
EndOutcome(c, a, ok) ==
    /\ c \in 1..Len(closers)
    /\ MicrotasksDrained
    /\ closers[c].pc = "awaiting"
    /\ a \in closers[c].waiting
    /\ closers' = [closers EXCEPT
           ![c].waiting = @ \ {a},
           ![c].failed = @ \/ (~ok /\ ~EndFailureSwallowed(closers[c].op))]
    /\ UNCHANGED <<connVars, cleanupInterval, dirCalls, preCalls, trustNow,
                   queueVars, trustVars, credVars, extVars, guardVars>>

\* The hard timeout of close call c fires (5000 ms in closeConnection,
\* 3000 ms in closeAll): every race still open resolves.
TimeoutFires(c) ==
    /\ c \in 1..Len(closers)
    /\ MicrotasksDrained
    /\ closers[c].pc = "awaiting"
    /\ closers[c].waiting # {}
    /\ closers' = [closers EXCEPT ![c].waiting = {}, ![c].timedOut = TRUE]
    /\ UNCHANGED <<connVars, cleanupInterval, dirCalls, preCalls, trustNow,
                   queueVars, trustVars, credVars, extVars, guardVars>>

\* The continuation of close call c after its await: closeConnection
\* returns; closeAll clears the pool and the directory caches and returns.
CloseResumes(c) ==
    /\ c \in 1..Len(closers)
    /\ NoChainRunning
    /\ closers[c].pc = "awaiting"
    /\ closers[c].waiting = {}
    /\ closers' = [closers EXCEPT ![c].pc = IF closers[c].failed THEN "rejected" ELSE "resolved"]
    /\ IF closers[c].op \in {"closeAll", "dispose"} /\ ~closers[c].failed
       THEN /\ connections' = Evict(connections, Keys)
            /\ dirCache' = EvictCache(dirCache, Keys)
       ELSE UNCHANGED <<connections, dirCache>>
    /\ UNCHANGED <<connecting, lastHostKeyValidation, attempts, calls, cleanupInterval,
                   dirCalls, preCalls, trustNow, queueVars, trustVars, credVars, extVars,
                   guardVars>>

\* The idle threshold (this.maxIdleTime) in clock ticks of the model.
IdleTicks == 1

\* `now - conn.lastUsed > this.maxIdleTime`
Expired(conn) == conn.idle > IdleTicks

\* Time passes: every pooled entry has been unused for one tick longer.
ClockTick ==
    /\ MicrotasksDrained
    /\ ClosersDrained
    /\ \E k \in Pooled : ~Expired(connections[k])
    /\ connections' = [k \in Keys |->
           IF k \in Pooled /\ ~Expired(connections[k])
           THEN Conn(connections[k].sftp, connections[k].idle + 1)
           ELSE connections[k]]
    /\ UNCHANGED <<connecting, dirCache, lastHostKeyValidation, attempts, calls, mgrVars,
                   queueVars, trustVars, credVars, extVars, guardVars>>

\* The idle sweep timer fires: _cleanupIdleConnections closes the pooled
\* connections ks, those that have been idle for longer than maxIdleTime.
IdleSweep(ks) ==
    /\ cleanupInterval
    /\ MicrotasksDrained
    /\ ClosersDrained
    /\ ks # {}
    /\ ks = { k \in Pooled : Expired(connections[k]) }
    /\ attempts' = EndAll(attempts, { connections[k].sftp : k \in ks })
    /\ connections' = Evict(connections, ks)
    /\ dirCache' = EvictCache(dirCache, ks)
    /\ UNCHANGED <<connecting, lastHostKeyValidation, calls, mgrVars,
                   queueVars, trustVars, credVars, extVars, guardVars>>

\* The transport of attempt a emits error: _handleConnectionError(key, err)
\* calls _safeCloseConnection on whatever is pooled under the key.
ErrorEvent(a) ==
    /\ a \in 1..Len(attempts)
    /\ MicrotasksDrained
    /\ ClosersDrained
    /\ attempts[a].sock \in {"open", "dead"}
    /\ LET key == attempts[a].key
           conn == connections[key]
           broken == [attempts EXCEPT ![a].sock = "dead"] IN
       /\ attempts' = IF conn # NoConn THEN EndTransport(broken, conn.sftp) ELSE broken
       /\ connections' = Evict(connections, {key})
       /\ dirCache' = IF conn # NoConn THEN EvictCache(dirCache, {key}) ELSE dirCache
    /\ UNCHANGED <<connecting, lastHostKeyValidation, calls, mgrVars,
                   queueVars, trustVars, credVars, extVars, guardVars>>

\* The transport of an attempt whose sftp.connect failed emits close (or
\* end) when its socket goes down, before or after the sftp.end() of the
\* catch block: _handleConnectionClose(key).
FailedConnectCloses(a) ==
    /\ a \in 1..Len(attempts)
    /\ MicrotasksDrained
    /\ ClosersDrained
    /\ attempts[a].phase \in {"ending", "rejected"}
    /\ attempts[a].error = "transport"
    /\ attempts[a].sock = "none"
    /\ attempts' = [attempts EXCEPT ![a].sock = "closed"]
    /\ LET key == attempts[a].key IN
       IF connections[key] # NoConn
       THEN /\ connections' = Evict(connections, {key})
            /\ dirCache' = EvictCache(dirCache, {key})
       ELSE UNCHANGED <<connections, dirCache>>
    /\ UNCHANGED <<connecting, lastHostKeyValidation, calls, mgrVars,
                   queueVars, trustVars, credVars, extVars, guardVars>>

\* Steps of the pool when every connect succeeds: connections are opened,
\* reused, dropped by the peer and closed.
NextClose ==
    \/ \E config \in Configs : Len(calls) < MaxPoolCalls /\ GetConnection(config)
    \/ \E a \in 1..MaxAttempts : BuildDone(a)
    \/ \E a \in 1..MaxAttempts : ClosersDrained /\ ConnectSucceeds(a)
    \/ \E c \in 1..MaxAttempts : Resume(c)
    \/ \E a \in 1..MaxAttempts : ClosersDrained /\ SocketDies(a)
    \/ \E a \in 1..MaxAttempts : ClosersDrained /\ CloseEvent(a)
    \/ \E config \in Configs : Len(closers) < MaxClosers /\ CloseConnection(config)
    \/ Len(closers) < MaxClosers /\ CloseAll
    \/ Len(closers) < MaxClosers /\ Dispose
    \/ \E c \in 1..MaxClosers, a \in 1..MaxAttempts, ok \in BOOLEAN : EndOutcome(c, a, ok)
    \/ \E c \in 1..MaxClosers : TimeoutFires(c)
    \/ \E c \in 1..MaxClosers : CloseResumes(c)

\* The same steps, with the idle sweep, connects that fail and transports
\* that emit error.
NextPool ==
    \/ \E config \in Configs : Len(calls) < MaxHostCalls /\ GetConnection(config)
    \/ \E a \in 1..MaxAttempts : BuildDone(a)
    \/ \E a \in 1..MaxAttempts : ClosersDrained /\ ConnectSucceeds(a)
    \/ \E c \in 1..MaxAttempts : Resume(c)
    \/ \E a \in 1..MaxAttempts : ClosersDrained /\ SocketDies(a)
    \/ \E a \in 1..MaxAttempts : ClosersDrained /\ CloseEvent(a)
    \/ \E config \in Configs : Len(closers) < MaxClosers /\ CloseConnection(config)
    \/ Len(closers) < MaxClosers /\ CloseAll
    \/ Len(closers) < MaxClosers /\ Dispose
    \/ \E c \in 1..MaxClosers, a \in 1..MaxAttempts, ok \in BOOLEAN : EndOutcome(c, a, ok)
    \/ \E c \in 1..MaxClosers : TimeoutFires(c)
    \/ \E c \in 1..MaxClosers : CloseResumes(c)
    \/ \E ks \in SUBSET Keys : IdleSweep(ks)
    \/ ClockTick
    \/ \E a \in 1..MaxAttempts : BuildFails(a)
    \/ \E a \in 1..MaxAttempts : ClosersDrained /\ ConnectFails(a)
    \/ \E a \in 1..MaxAttempts : EndSettles(a)
    \/ \E a \in 1..MaxAttempts : ErrorEvent(a)
    \/ \E a \in 1..MaxAttempts : FailedConnectCloses(a)

\* Steps of the pool over time: connections are opened, reused, dropped by
\* the peer, and swept when idle.
NextIdle ==
    \/ \E config \in Configs : Len(calls) < MaxHostCalls /\ GetConnection(config)
    \/ \E a \in 1..MaxAttempts : BuildDone(a)
    \/ \E a \in 1..MaxAttempts : ConnectSucceeds(a)
    \/ \E c \in 1..MaxAttempts : Resume(c)
    \/ \E a \in 1..MaxAttempts : SocketDies(a)
    \/ \E a \in 1..MaxAttempts : CloseEvent(a)
    \/ ClockTick
    \/ \E ks \in SUBSET Keys : IdleSweep(ks)

\* Bound of SpecDirs: the number of ensureDir calls.
MaxDirCalls == 2

\* The directories ensureDir is called for (the dirname of an upload's
\* remote path): a directory, its parent, and the root.
DirPaths == { Path(TRUE, <<"a", "b">>, FALSE), Path(TRUE, <<"a">>, FALSE), RootPath }

\* The paths added after a successful mkdir besides remoteDir itself:
\* `currentPath += '/' + part` for every part of remoteDir.split('/').
CachedPrefixes(remoteDir) ==
    { Path(TRUE, SubSeq(remoteDir.segs, 1, i), FALSE) : i \in 1..Len(remoteDir.segs) }

\* ensureDir(config, remoteDir, sftp), up to `await sftp.mkdir(...)` or to
\* its return on a cache hit.  The call keeps the Set it read from
\* this.dirCache (set: the owner of that Set) and the calls that had
\* completed when it was made (before).
EnsureDir(config, remoteDir, sftp) ==
    /\ NoChainRunning
    /\ LET key == ConnectionKey(config)
           cache == IF dirCache[key].present THEN dirCache[key]
                    ELSE NewCache(0 - (Len(dirCalls) + 1))
           hit == remoteDir \in cache.dirs IN
       /\ dirCache' = [dirCache EXCEPT ![key] = cache]
       /\ dirCalls' = Append(dirCalls,
              [key |-> key, dir |-> remoteDir, sftp |-> sftp, set |-> cache.owner,
               before |-> { i \in 1..Len(dirCalls) : dirCalls[i].pc = "done" },
               mkdir |-> ~hit, ok |-> TRUE,
               pc |-> IF hit THEN "done" ELSE "mkdir"])
    /\ UNCHANGED <<connections, connecting, lastHostKeyValidation, attempts, calls,
                   closers, cleanupInterval, preCalls, trustNow,
                   queueVars, trustVars, credVars, extVars, guardVars>>

\* sftp.mkdir(remoteDir, true) of ensureDir call i resolves (ok) or
\* rejects: the rest of the try block, or the catch block.  The paths are
\* added to the Set the call holds, which is the key's cache only while
\* this.dirCache still maps the key to that Set.  A mkdir resolves only on a
\* transport whose socket is open.
MkdirSettles(i, ok) ==
    /\ i \in 1..Len(dirCalls)
    /\ MicrotasksDrained
    /\ dirCalls[i].pc = "mkdir"
    /\ ok => attempts[dirCalls[i].sftp].sock = "open"
    /\ LET key == dirCalls[i].key
           added == IF ok THEN {dirCalls[i].dir} \cup CachedPrefixes(dirCalls[i].dir)
                    ELSE {dirCalls[i].dir} IN
       dirCache' = IF dirCache[key].present /\ dirCache[key].owner = dirCalls[i].set
                   THEN [dirCache EXCEPT ![key].dirs = @ \cup added]
                   ELSE dirCache
    /\ dirCalls' = [dirCalls EXCEPT ![i].pc = "done", ![i].ok = ok]
    /\ UNCHANGED <<connections, connecting, lastHostKeyValidation, attempts, calls,
                   closers, cleanupInterval, preCalls, trustNow,
                   queueVars, trustVars, credVars, extVars, guardVars>>

\* Steps of the pool with uploads creating their directories: ensureDir is
\* called with the transport of the pooled connection.
NextDirs ==
    \/ \E config \in Configs : Len(calls) < MaxHostCalls /\ GetConnection(config)
    \/ \E a \in 1..MaxAttempts : BuildDone(a)
    \/ \E a \in 1..MaxAttempts : ConnectSucceeds(a)
    \/ \E c \in 1..MaxAttempts : Resume(c)
    \/ \E a \in 1..MaxAttempts : SocketDies(a)
    \/ \E a \in 1..MaxAttempts : CloseEvent(a)
    \/ \E config \in Configs, dir \in DirPaths :
          /\ Len(dirCalls) < MaxDirCalls
          /\ connections[ConnectionKey(config)] # NoConn
          /\ EnsureDir(config, dir, connections[ConnectionKey(config)].sftp)
    \/ \E i \in 1..MaxDirCalls, ok \in BOOLEAN : MkdirSettles(i, ok)

\* A task that has borrowed a connection (its getConnection call has
\* returned) calls ensureDir with the handle it got.
BorrowerEnsuresDir(c, config, remoteDir) ==
    /\ c \in 1..Len(calls)
    /\ calls[c].pc = "returned"
    /\ calls[c].key = ConnectionKey(config)
    /\ EnsureDir(config, remoteDir, calls[c].result)

\* Steps of the pool over time with tasks that borrow connections for
\* their transfers.
NextBorrow ==
    \/ \E config \in Configs : Len(calls) < MaxHostCalls /\ GetConnection(config)
    \/ \E a \in 1..MaxAttempts : BuildDone(a)
    \/ \E a \in 1..MaxAttempts : ConnectSucceeds(a)
    \/ \E c \in 1..MaxAttempts : Resume(c)
    \/ \E a \in 1..MaxAttempts : SocketDies(a)
    \/ \E a \in 1..MaxAttempts : CloseEvent(a)
    \/ ClockTick
    \/ \E ks \in SUBSET Keys : IdleSweep(ks)
    \/ \E c \in 1..MaxAttempts, config \in Configs, dir \in DirPaths :
          Len(dirCalls) < MaxDirCalls /\ BorrowerEnsuresDir(c, config, dir)
    \/ \E i \in 1..MaxDirCalls, ok \in BOOLEAN : MkdirSettles(i, ok)

\* Bounds of SpecPre: preConnectAll calls, and the length of their lists
\* (which also bounds the getConnection calls they make in total).
MaxPreCalls == 2
MaxPreConfigs == 2

\* The argument of preConnectAll: a list of server configurations, or
\* nothing (undefined).
PreInputs ==
    { [given |-> TRUE, configs |-> l] :
        l \in UNION { [1..n -> Configs] : n \in 0..MaxPreConfigs } }
    \cup { [given |-> FALSE, configs |-> <<>>] }

\* The pool as one value, for the calls a single run of code makes in a row.
PoolNow ==
    [calls |-> calls, attempts |-> attempts, connecting |-> connecting,
     connections |-> connections, dirCache |-> dirCache]

\* getConnection(config) up to its first await, as GetConnection above,
\* applied to the pool st.
GetConnectionIn(st, config) ==
    LET c == Len(st.calls) + 1
        key == ConnectionKey(config)
        rec == [key |-> key, hostKey |-> HostKey(config), pc |-> "start",
                attempt |-> NoAttempt, joined |-> NoAttempt,
                result |-> NoAttempt, error |-> "none"]
        conn == st.connections[key] IN
    IF st.connecting[key] # NoAttempt
    THEN LET a == st.connecting[key] IN
         [st EXCEPT
            !.calls = Append(st.calls, [rec EXCEPT !.pc = "awaitInflight",
                                                   !.attempt = a, !.joined = a]),
            !.attempts = [st.attempts EXCEPT ![a].reactions = Append(@, c)]]
    ELSE IF conn # NoConn /\ st.attempts[conn.sftp].sock = "open"
    THEN [st EXCEPT
            !.calls = Append(st.calls, [rec EXCEPT !.pc = "returned", !.result = conn.sftp]),
            !.connections = [st.connections EXCEPT ![key] = Touch(conn)]]
    ELSE LET a == Len(st.attempts) + 1
             closed == IF conn # NoConn THEN EndTransport(st.attempts, conn.sftp)
                       ELSE st.attempts IN
         [st EXCEPT
            !.attempts = Append(closed, NewAttempt(key, rec.hostKey, c)),
            !.connecting = [st.connecting EXCEPT ![key] = a],
            !.calls = Append(st.calls, [rec EXCEPT !.pc = "awaitOwn", !.attempt = a]),
            !.connections = [st.connections EXCEPT ![key] = NoConn],
            !.dirCache = IF conn # NoConn THEN [st.dirCache EXCEPT ![key] = NoCache]
                         ELSE st.dirCache]

\* `configs.map(async config => { ... await this.getConnection(config) ...`:
\* the callbacks run one after the other, each up to its await.
RECURSIVE GetConnections(_, _)
GetConnections(st, configs) ==
    IF configs = <<>> THEN st
    ELSE GetConnections(GetConnectionIn(st, Head(configs)), Tail(configs))

\* Mutant of PreConnectRecord: the callback has no try / catch.
PreConnectRecordUncaught(config, call) ==
    [settled |-> IF call.pc = "returned" THEN "fulfilled" ELSE "rejected",
     success |-> TRUE, server |-> config.host, error |-> "none"]

\* The promise of the map callback for config, whose getConnection call
\* has returned or thrown: `{ success: true, server }` or, from the catch
\* block, `{ success: false, server, error: error.message }`.
PreConnectRecord(config, call) ==
    [settled |-> "fulfilled",
     success |-> call.pc = "returned",
     server  |-> config.host,
     error   |-> IF call.pc = "returned" THEN "none" ELSE call.error]

\* preConnectAll(configs), up to the awaits of its callbacks.  first is the
\* getConnection call made for configs[1]; started and attempted count the
\* getConnection calls and the connects the call has made.
PreConnectAll(input) ==
    /\ NoChainRunning
    /\ LET none == ~input.given \/ Len(input.configs) = 0
           st == IF none THEN PoolNow ELSE GetConnections(PoolNow, input.configs) IN
       /\ calls' = st.calls
       /\ attempts' = st.attempts
       /\ connecting' = st.connecting
       /\ connections' = st.connections
       /\ dirCache' = st.dirCache
       /\ preCalls' = Append(preCalls,
              [input |-> input,
               first |-> Len(calls) + 1,
               started |-> Len(st.calls) - Len(calls),
               attempted |-> Len(st.attempts) - Len(attempts),
               pc |-> IF none THEN "resolved" ELSE "awaiting",
               result |-> <<>>])
    /\ UNCHANGED <<lastHostKeyValidation, closers, cleanupInterval, dirCalls, trustNow,
                   queueVars, trustVars, credVars, extVars, guardVars>>

\* The getConnection call made by preConnectAll call p for configs[i].
PreCallOf(p, i) == calls[preCalls[p].first + i - 1]

\* Every callback of preConnectAll call p has settled: Promise.all settles
\* and the call with it.
PreConnectSettles(p) ==
    /\ p \in 1..Len(preCalls)
    /\ NoChainRunning
    /\ preCalls[p].pc = "awaiting"
    /\ LET configs == preCalls[p].input.configs
           records == [i \in 1..Len(configs) |-> PreConnectRecord(configs[i], PreCallOf(p, i))] IN
       /\ \A i \in 1..Len(configs) : PreCallOf(p, i).pc \in {"returned", "threw"}
       /\ preCalls' = [preCalls EXCEPT ![p] =
              IF \E i \in 1..Len(configs) : records[i].settled = "rejected"
              THEN [@ EXCEPT !.pc = "rejected"]
              ELSE [@ EXCEPT !.pc = "resolved",
                             !.result = [i \in 1..Len(configs) |->
                                 [success |-> records[i].success,
                                  server |-> records[i].server,
                                  error |-> records[i].error]]]]
    /\ UNCHANGED <<connVars, closers, cleanupInterval, dirCalls, trustNow,
                   queueVars, trustVars, credVars, extVars, guardVars>>

\* Steps of the pool under preConnectAll: connects succeed or fail.
NextPre ==
    \/ \E input \in PreInputs :
          /\ Len(preCalls) < MaxPreCalls
          /\ Len(calls) + Len(input.configs) <= MaxPreConfigs
          /\ PreConnectAll(input)
    \/ \E a \in 1..MaxAttempts : BuildDone(a)
    \/ \E a \in 1..MaxAttempts : BuildFails(a)
    \/ \E a \in 1..MaxAttempts : ConnectSucceeds(a)
    \/ \E a \in 1..MaxAttempts : ConnectFails(a)
    \/ \E a \in 1..MaxAttempts : EndSettles(a)
    \/ \E c \in 1..MaxAttempts : Resume(c)
    \/ \E p \in 1..MaxPreCalls : PreConnectSettles(p)

\* Bound of SpecTrustNow: the number of trustHostKeyNow calls.
MaxTrustNow == 2

\* One trustHostKeyNow(config) call and its disposable transport
\* (tempClient), which has no listeners and is known to this call only.
\*   pc:       building | connecting | ending (in the finally block,
\*             awaiting tempClient.end()) | returned | threw
\*   captured: the fingerprint the capturing verifier has seen
\*   ended:    tempClient.end() has been called
\*   error:    what the try block threw, "none" if it returned
NewTrustNow(config) ==
    [key |-> ConnectionKey(config), hostKey |-> HostKey(config), pc |-> "building",
     captured |-> "none", ended |-> FALSE, error |-> "none"]

\* The try block of call t is left with `error` ("none": by its return):
\* the finally block calls tempClient.end() and awaits it.
TrustNowFinally(t, error) ==
    [trustNow EXCEPT ![t].pc = "ending", ![t].ended = TRUE, ![t].error = error]

\* trustHostKeyNow(config), up to `await this._buildConnectOptions(...)`.
TrustHostKeyNow(config) ==
    /\ NoChainRunning
    /\ trustNow' = Append(trustNow, NewTrustNow(config))
    /\ UNCHANGED <<connVars, trustVars, closers, cleanupInterval, dirCalls, preCalls,
                   queueVars, credVars, extVars, guardVars>>

\* _buildConnectOptions(config, key, {captureFingerprint: true}) resolves
\* and tempClient.connect is called, or it rejects (credentials, key file).
TrustNowBuilt(t, ok) ==
    /\ t \in 1..Len(trustNow)
    /\ NoChainRunning
    /\ trustNow[t].pc = "building"
    /\ trustNow' = IF ok THEN [trustNow EXCEPT ![t].pc = "connecting"]
                   ELSE TrustNowFinally(t, "credentials")
    /\ UNCHANGED <<connVars, trustVars, closers, cleanupInterval, dirCalls, preCalls,
                   queueVars, credVars, extVars, guardVars>>

\* The capturing verifier is called with the fingerprint the peer offers:
\* `capturedFingerprint = fingerprint; return true`.
TrustNowHostKey(t, fingerprint) ==
    /\ t \in 1..Len(trustNow)
    /\ MicrotasksDrained
    /\ trustNow[t].pc = "connecting"
    /\ trustNow' = [trustNow EXCEPT ![t].captured = fingerprint]
    /\ UNCHANGED <<connVars, trustVars, closers, cleanupInterval, dirCalls, preCalls,
                   queueVars, credVars, extVars, guardVars>>

\* tempClient.connect resolves: the rest of the try block.  Without a
\* captured fingerprint it throws; else hostTrustStore.trustFingerprint(
\* config, fingerprint, 'manual') sets the entry and writes the store file
\* (_persist), which succeeds (persistOk) or throws.
TrustNowConnected(t, persistOk) ==
    /\ t \in 1..Len(trustNow)
    /\ MicrotasksDrained
    /\ trustNow[t].pc = "connecting"
    /\ IF trustNow[t].captured = "none"
       THEN /\ trustNow' = TrustNowFinally(t, "capture")
            /\ UNCHANGED <<entries, persisted>>
       ELSE /\ entries' = TrustFingerprint(entries, trustNow[t].hostKey,
                                           trustNow[t].captured, "manual")
            /\ persisted' = IF persistOk THEN entries' ELSE persisted
            /\ trustNow' = TrustNowFinally(t, IF persistOk THEN "none" ELSE "persist")
    /\ UNCHANGED <<connVars, policy, lastOp, closers, cleanupInterval, dirCalls, preCalls,
                   queueVars, credVars, extVars, guardVars>>

\* tempClient.connect rejects.
TrustNowConnectFails(t) ==
    /\ t \in 1..Len(trustNow)
    /\ MicrotasksDrained
    /\ trustNow[t].pc = "connecting"
    /\ trustNow' = TrustNowFinally(t, "transport")
    /\ UNCHANGED <<connVars, trustVars, closers, cleanupInterval, dirCalls, preCalls,
                   queueVars, credVars, extVars, guardVars>>

\* tempClient.end() settles (a rejection is swallowed): the call returns
\* the fingerprint or rethrows the error of the try block.
TrustNowEndSettles(t, ok) ==
    /\ t \in 1..Len(trustNow)
    /\ NoChainRunning
    /\ trustNow[t].pc = "ending"
    /\ trustNow' = [trustNow EXCEPT
           ![t].pc = IF trustNow[t].error = "none" THEN "returned" ELSE "threw"]
    /\ UNCHANGED <<connVars, trustVars, closers, cleanupInterval, dirCalls, preCalls,
                   queueVars, credVars, extVars, guardVars>>

\* Steps of the trust command (multi-sftp-sync.trustHostKey).
NextTrustNow ==
    \/ \E config \in TrustConfigs :
          Len(trustNow) < MaxTrustNow /\ TrustHostKeyNow(config)
    \/ \E t \in 1..MaxTrustNow, ok \in BOOLEAN : TrustNowBuilt(t, ok)
    \/ \E t \in 1..MaxTrustNow, f \in Fingerprints : TrustNowHostKey(t, f)
    \/ \E t \in 1..MaxTrustNow, persistOk \in BOOLEAN : TrustNowConnected(t, persistOk)
    \/ \E t \in 1..MaxTrustNow : TrustNowConnectFails(t)
    \/ \E t \in 1..MaxTrustNow, ok \in BOOLEAN : TrustNowEndSettles(t, ok)

\* The scheduling the shutdown calls rely on: a timer that has been set
\* fires, and a continuation whose await has settled runs (that of a
\* close call and that of a getConnection call).
CloseFairness ==
    /\ \A c \in 1..MaxClosers : WF_vars(TimeoutFires(c)) /\ WF_vars(CloseResumes(c))
    /\ \A c \in 1..MaxAttempts : WF_vars(Resume(c))

(***************************************************************************)
(*              The path guard functions called directly                   *)
(***************************************************************************)

\* Bound of SpecGuard: the number of segments of a path argument.
MaxSegs == 2

\* Segment names: an ordinary name, '.', '..', and two names that begin
\* with dots (a hidden file, and a name that begins with two dots).
SegNames == {"a", ".", "..", ".h", "..f"}

SegSeqs == UNION { [1..n -> SegNames] : n \in 0..MaxSegs }

\* The path strings built from these segments: absolute or relative, with
\* or without a trailing '/'; the empty string is Path(FALSE, <<>>, FALSE).
GuardPaths ==
    { Path(abs, segs, dir) : abs \in BOOLEAN, dir \in BOOLEAN, segs \in SegSeqs } \
        { Path(abs, <<>>, TRUE) : abs \in BOOLEAN }

\* The base paths of the server configurations: absolute paths, one
\* segment shorter than the longest candidate.
GuardBases == { b \in GuardPaths : b.abs /\ Len(b.segs) < MaxSegs }

\* The lists of critical paths of the settings: none, the root, the
\* default-like list, and a list with a trailing slash.
CriticalLists ==
    { {}, {RootPath}, {RootPath, Path(TRUE, <<"a">>, FALSE)},
      {Path(TRUE, <<"a">>, TRUE), Path(TRUE, <<"a", ".h">>, FALSE)} }

\* One call of a path guard function: its arguments, and once it has been
\* made (called) what it returned or whether it threw.
GuardCall(fn, remoteBase, remotePath, criticalPaths, enabled) ==
    [fn |-> fn, remoteBase |-> remoteBase, remotePath |-> remotePath,
     criticalPaths |-> criticalPaths, enabled |-> enabled,
     called |-> FALSE, ok |-> TRUE, path |-> RootPath, critical |-> FALSE]

NoGuardCall == GuardCall("none", RootPath, RootPath, {}, TRUE)

GuardIdle == guard = NoGuardCall

\* The arguments the two functions are called with.
GuardInputs ==
    { GuardCall("assertRemotePathSafe", b, c, {}, e) :
        b \in GuardBases, c \in GuardPaths, e \in BOOLEAN }
    \cup
    { GuardCall("isCriticalRemotePath", RootPath, c, l, TRUE) :
        c \in GuardPaths, l \in CriticalLists }

InitGuard == guard \in GuardInputs

\* assertRemotePathSafe(remoteBase, remotePath, {enabled}) is called.
AssertRemotePathSafeCall ==
    /\ guard.fn = "assertRemotePathSafe"
    /\ ~guard.called
    /\ LET r == AssertRemotePathSafe(guard.remoteBase, guard.remotePath, guard.enabled) IN
       guard' = [guard EXCEPT !.called = TRUE, !.ok = r.ok, !.path = r.path]
    /\ UNCHANGED <<queueVars, connVars, trustVars, credVars, extVars, mgrVars>>

\* isCriticalRemotePath(remotePath, criticalPaths) is called.
IsCriticalRemotePathCall ==
    /\ guard.fn = "isCriticalRemotePath"
    /\ ~guard.called
    /\ guard' = [guard EXCEPT
           !.called = TRUE,
           !.critical = IsCriticalRemotePath(guard.remotePath, guard.criticalPaths)]
    /\ UNCHANGED <<queueVars, connVars, trustVars, credVars, extVars, mgrVars>>

NextGuard ==
    \/ AssertRemotePathSafeCall
    \/ IsCriticalRemotePathCall

(***************************************************************************)
(*        Upload, delete, mkdir, download and compare operations           *)
(***************************************************************************)

\* Bounds of SpecExt: how many queue tasks the operations create and how
\* many downloads run at once, and how many entries a listing returns.
MaxExtTasks == 1
MaxDirect == 1
MaxListing == 1

\* The operations are called without a token, as the file watcher does.
ExtTokens == {NoToken}

\* The local paths the file events and commands are called with: files
\* and folders of the workspace, the workspace folder itself, and a path
\* that leaves the workspace through '..'.
LocalPaths ==
    { Path(TRUE, WorkspaceRoot.segs \o s, FALSE) :
        s \in { <<"f">>, <<"m">>, <<"..", "b">>, <<>> } }

\* The remote paths of the remote explorer's tree items.
RemotePaths ==
    { Path(TRUE, s, FALSE) : s \in { <<"a">>, <<"b">>, <<"a", "..", "b">> } }

\* The entries a server's directory listing may return: the name is what
\* the server says it is, "f" or "../f".
ListEntries == [name : { <<"f">>, <<"..", "f">> }, type : {"-", "d"}]

Listings == UNION { [1..n -> ListEntries] : n \in 0..MaxListing }

\* `safety.blockPathTraversal !== false`
GuardEnabled == safety.blockPathTraversal

\* A transport call: sftp.<op>(path) on the server whose base is `base`.
Call(op, path, base) == [op |-> op, path |-> path, base |-> base]

\* What an operation call returned: a result object with its success and
\* blocked fields, a thrown error, or the promise of a queue task.
Result(op, path, success, blocked, threw, enqueued) ==
    [op |-> op, path |-> path, success |-> success, blocked |-> blocked,
     threw |-> threw, enqueued |-> enqueued]

NoResult == Result("none", RootPath, "none", FALSE, FALSE, FALSE)

\* The task closure an operation hands to the queue.
TaskOp(kind, path, base) == [kind |-> kind, path |-> path, base |-> base]

\* Bounds: the saves of the file, and the clock ticks that pass.
MaxSaves == 2
MaxNow == 4

\* OPERATION_DEDUPE_TTL_MS, in clock ticks.
DedupeTicks == 1

\* No save yet: Date.now() is 1, operationDedupe has no entry for the
\* file's upload key (lastSeen 0), the file on disk holds content 0 and
\* that content is what was last handed to sftp.put.
NoSaves == [now |-> 1, lastSeen |-> 0, disk |-> 0, sent |-> 0]

\* The extension's own state at rest: default safety settings, nothing
\* enqueued or running.
ExtIdle ==
    /\ saver = NoSaves
    /\ safety = [blockPathTraversal |-> TRUE, blockCriticalDeletes |-> TRUE]
    /\ taskOps = <<>>
    /\ issued = {}
    /\ written = {}
    /\ direct = 0
    /\ lastResult = NoResult

\* The components that a specification does not exercise, at rest.
SideIdle == GuardIdle /\ MgrIdle

AppIdle == CredIdle /\ ExtIdle /\ SideIdle

InitExt ==
    /\ saver = NoSaves
    /\ safety \in [blockPathTraversal : BOOLEAN, blockCriticalDeletes : BOOLEAN]
    /\ taskOps = <<>>
    /\ issued = {}
    /\ written = {}
    /\ direct = 0
    /\ lastResult = NoResult

\* An operation that stops before the queue: nothing is enqueued, no
\* transport call is made.
Refused(result) ==
    /\ lastResult' = result
    /\ issued' = {}
    /\ written' = {}
    /\ UNCHANGED <<queueVars, taskOps, direct>>

\* transferQueue.enqueue(async () => {...}, {token}) with the closure op.
EnqueueOp(op, t, result) ==
    /\ Len(items) < MaxExtTasks
    /\ EnqueueTask(t)
    /\ taskOps' = Append(taskOps, op)
    /\ lastResult' = result
    /\ issued' = {}
    /\ written' = {}
    /\ UNCHANGED direct

\* uploadFile(filePath) for one server: getRemotePath, then uploadToServer.
UploadFile(filePath, config, t) ==
    /\ filePath # WorkspaceRoot
    /\ LET g == GetRemotePath(filePath, WorkspaceRoot, config, GuardEnabled) IN
       IF ~g.ok
       THEN Refused(Result("uploadFile", filePath, "none", FALSE, TRUE, FALSE))
       ELSE EnqueueOp(TaskOp("upload", g.path, g.base), t,
                      Result("uploadToServer", g.path, "pending", FALSE, FALSE, TRUE))
    /\ UNCHANGED <<safety, saver, connVars, trustVars, credVars, sideVars>>

\* deleteFromServer(relativePath, config, remotePath)
DeleteFromServer(remotePath, base, t) ==
    LET safetyResult == CheckDeleteSafety(remotePath, safety) IN
    IF safetyResult.blocked
    THEN Refused(Result("deleteFromServer", safetyResult.normalized, "false", TRUE, FALSE, FALSE))
    ELSE EnqueueOp(TaskOp("delete", safetyResult.normalized, base), t,
                   Result("deleteFromServer", safetyResult.normalized, "pending", FALSE, FALSE, TRUE))

\* deleteFile(filePath) for one server: getRemotePath, then deleteFromServer.
DeleteFile(filePath, config, t) ==
    /\ LET g == GetRemotePath(filePath, WorkspaceRoot, config, GuardEnabled) IN
       IF ~g.ok
       THEN Refused(Result("deleteFile", filePath, "none", FALSE, TRUE, FALSE))
       ELSE DeleteFromServer(g.path, g.base, t)
    /\ UNCHANGED <<safety, saver, connVars, trustVars, credVars, sideVars>>

\* createRemoteDirectory(localPath) for one server: getRemotePath, then
\* createDirectoryOnServer. A guard error skips the server.
CreateRemoteDirectory(localPath, config, t) ==
    /\ LET g == GetRemotePath(localPath, WorkspaceRoot, config, GuardEnabled) IN
       IF ~g.ok
       THEN Refused(Result("createRemoteDirectory", localPath, "none", FALSE, FALSE, FALSE))
       ELSE EnqueueOp(TaskOp("mkdir", g.path, g.base), t,
                      Result("createDirectoryOnServer", g.path, "pending", FALSE, FALSE, TRUE))
    /\ UNCHANGED <<safety, saver, connVars, trustVars, credVars, sideVars>>

\* The transport calls of a task closure: upload is ensureDir(dirname) and
\* put; delete is exists and then, by what exists answered, nothing,
\* delete or rmdir; mkdir is ensureDir.
TaskCalls(op, existsType) ==
    IF op.kind = "upload"
    THEN { Call("mkdir", PosixDirname(op.path), op.base), Call("put", op.path, op.base) }
    ELSE IF op.kind = "delete"
    THEN { Call("exists", op.path, op.base) }
         \cup (IF existsType = "d" THEN { Call("rmdir", op.path, op.base) }
               ELSE IF existsType = "-" THEN { Call("delete", op.path, op.base) }
               ELSE {})
    ELSE { Call("mkdir", op.path, op.base) }

\* The queue calls the closure of item id: throwIfCanceled(token), then
\* the closure's transport calls.
RunExtTask(id, existsType) ==
    /\ RunTask(id)
    /\ id <= Len(taskOps)
    /\ issued' = IF items[id].token # NoToken /\ tokenCancelled[items[id].token]
                 THEN {}
                 ELSE TaskCalls(taskOps[id], existsType)
    /\ written' = {}
    /\ lastResult' = NoResult
    /\ UNCHANGED <<safety, saver, taskOps, direct, connVars, trustVars, credVars, sideVars>>

\* The download commands' local target for a tree item:
\* path.join(workspaceRoot, path.relative(config.remotePath, remotePath)).
LocalTarget(config, remotePath) ==
    Path(TRUE,
         WorkspaceRoot.segs \o PosixRelative(PathResolve(config.remotePath), PathResolve(remotePath)),
         FALSE)

\* _applyPathGuard(config, remotePath, localPath, workspaceRoot): ok is
\* FALSE when either guard throws.
ApplyPathGuard(config, remotePath, localPath, enabled) ==
    LET r == AssertRemotePathSafe(config.remotePath, remotePath, enabled)
        l == AssertLocalPathInsideWorkspace(WorkspaceRoot, localPath, enabled) IN
    [ok |-> r.ok /\ l.ok, guardedRemotePath |-> r.path, guardedLocalPath |-> l.path]

\* A download or compare whose guard threw: the catch block returns
\* {success: false, error}.
DirectFails(op, path) ==
    /\ lastResult' = Result(op, path, "false", FALSE, FALSE, FALSE)
    /\ issued' = {}
    /\ written' = {}
    /\ UNCHANGED direct

\* downloadFile(config, remotePath, localPath, {workspaceRoot}), up to its
\* sftp.get; it is called by the commands, not by a queue task.
DownloadFile(config, remotePath) ==
    /\ LET g == ApplyPathGuard(config, remotePath, LocalTarget(config, remotePath), GuardEnabled) IN
       IF ~g.ok
       THEN DirectFails("downloadFile", g.guardedRemotePath)
       ELSE /\ direct < MaxDirect
            /\ direct' = direct + 1
            /\ issued' = { Call("get", g.guardedRemotePath, NormalizeRemotePath(config.remotePath)) }
            /\ written' = { g.guardedLocalPath }
            /\ lastResult' = Result("downloadFile", g.guardedRemotePath, "pending", FALSE, FALSE, FALSE)
    /\ UNCHANGED <<safety, saver, taskOps, queueVars, connVars, trustVars, credVars, sideVars>>

\* The loop of downloadDirectory over the listing: a file entry is fetched
\* to the joined paths as they are; a directory entry goes through
\* downloadDirectory again (its own listing taken to be empty), and the
\* loop returns when that fails.
RECURSIVE DownloadEntries(_, _, _, _, _)
DownloadEntries(files, config, guardedRemotePath, guardedLocalPath, enabled) ==
    IF files = <<>> THEN [issued |-> {}, written |-> {}]
    ELSE LET file == Head(files)
             base == NormalizeRemotePath(config.remotePath)
             remoteFilePath == PosixJoin(guardedRemotePath, Path(FALSE, file.name, FALSE))
             localFilePath == PathResolve(Path(TRUE, guardedLocalPath.segs \o file.name, FALSE))
             rest == DownloadEntries(Tail(files), config, guardedRemotePath, guardedLocalPath, enabled)
         IN
         IF file.type = "d"
         THEN LET sub == ApplyPathGuard(config, remoteFilePath, localFilePath, enabled) IN
              IF ~sub.ok THEN [issued |-> {}, written |-> {}]
              ELSE [issued  |-> { Call("list", sub.guardedRemotePath, base) } \cup rest.issued,
                    written |-> { sub.guardedLocalPath } \cup rest.written]
         ELSE [issued  |-> { Call("get", remoteFilePath, base) } \cup rest.issued,
               written |-> { localFilePath } \cup rest.written]

\* downloadDirectory(config, remotePath, localPath, progress,
\* {workspaceRoot}) when the server's listing is `files`.
DownloadDirectory(config, remotePath, files) ==
    /\ LET g == ApplyPathGuard(config, remotePath, LocalTarget(config, remotePath), GuardEnabled) IN
       IF ~g.ok
       THEN DirectFails("downloadDirectory", g.guardedRemotePath)
       ELSE LET e == DownloadEntries(files, config, g.guardedRemotePath,
                                     g.guardedLocalPath, GuardEnabled) IN
            /\ direct < MaxDirect
            /\ direct' = direct + 1
            /\ issued' = { Call("list", g.guardedRemotePath, NormalizeRemotePath(config.remotePath)) }
                         \cup e.issued
            /\ written' = { g.guardedLocalPath } \cup e.written
            /\ lastResult' = Result("downloadDirectory", g.guardedRemotePath, "pending",
                                    FALSE, FALSE, FALSE)
    /\ UNCHANGED <<safety, saver, taskOps, queueVars, connVars, trustVars, credVars, sideVars>>

\* A running download returns.
DownloadReturns ==
    /\ direct > 0
    /\ direct' = direct - 1
    /\ issued' = {}
    /\ written' = {}
    /\ lastResult' = NoResult
    /\ UNCHANGED <<safety, saver, taskOps, queueVars, connVars, trustVars, credVars, sideVars>>

\* compareWithRemote(localPath, config, remotePath): the remote file is
\* fetched into a temporary file outside the workspace.
CompareWithRemote(config, remotePath) ==
    /\ LET r == AssertRemotePathSafe(config.remotePath, remotePath, GuardEnabled) IN
       IF ~r.ok
       THEN DirectFails("compareWithRemote", r.path)
       ELSE /\ issued' = { Call("get", r.path, NormalizeRemotePath(config.remotePath)) }
            /\ written' = {}
            /\ lastResult' = Result("compareWithRemote", r.path, "true", FALSE, FALSE, FALSE)
            /\ UNCHANGED direct
    /\ UNCHANGED <<safety, saver, taskOps, queueVars, connVars, trustVars, credVars, sideVars>>

\* The operations that go through the transfer queue.
NextExtQueue ==
    \/ \E f \in LocalPaths, c \in ExtConfigs, t \in ExtTokens : UploadFile(f, c, t)
    \/ \E f \in LocalPaths, c \in ExtConfigs, t \in ExtTokens : DeleteFile(f, c, t)
    \/ \E f \in LocalPaths, c \in ExtConfigs, t \in ExtTokens : CreateRemoteDirectory(f, c, t)
    \/ \E id \in 1..MaxExtTasks, e \in {"none", "-", "d"} : RunExtTask(id, e)
    \/ \E id \in 1..MaxExtTasks, ok \in BOOLEAN : TaskSettles(id, ok)
    \/ \E id \in 1..MaxExtTasks : Finally(id)

\* All operations: those of the queue and the downloads and compares.
NextExt ==
    \/ \E f \in LocalPaths, c \in ExtConfigs, t \in ExtTokens : UploadFile(f, c, t)
    \/ \E f \in LocalPaths, c \in ExtConfigs, t \in ExtTokens : DeleteFile(f, c, t)
    \/ \E f \in LocalPaths, c \in ExtConfigs, t \in ExtTokens : CreateRemoteDirectory(f, c, t)
    \/ \E id \in 1..MaxExtTasks, e \in {"none", "-", "d"} : RunExtTask(id, e)
    \/ \E id \in 1..MaxExtTasks, ok \in BOOLEAN : TaskSettles(id, ok)
    \/ \E id \in 1..MaxExtTasks : Finally(id)
    \/ \E c \in ExtConfigs, r \in RemotePaths : DownloadFile(c, r)
    \/ \E c \in ExtConfigs, r \in RemotePaths, l \in Listings : DownloadDirectory(c, r, l)
    \/ DownloadReturns
    \/ \E c \in ExtConfigs, r \in RemotePaths : CompareWithRemote(c, r)

(***************************************************************************)
(*              Extension: automatic upload on save, dedupe                *)
(***************************************************************************)

\* The file that is saved and the server it is uploaded to.
SavedFile == Path(TRUE, WorkspaceRoot.segs \o <<"f">>, FALSE)

SaveConfig == [remotePath |-> Path(TRUE, <<"a">>, FALSE), mapping |-> NoMapping]

\* Mutant of ShouldSkipDuplicateOperation: nothing is a duplicate.
ShouldSkipNever(lastSeen, now) == FALSE

\* shouldSkipDuplicateOperation(opType, config, relativePath) for the key
\* of the file's upload: lastSeen is operationDedupe.get(key), 0 when the
\* map has no entry (cleanupOperationDedupe deletes the entries older than
\* the window, which the test below skips as well).
ShouldSkipDuplicateOperation(lastSeen, now) ==
    lastSeen # 0 /\ now - lastSeen <= DedupeTicks

\* onDidSaveTextDocument: the editor has written the next content to the
\* file; uploadFile(filePath, {skipOnFailure, silent}) skips the server
\* when shouldSkipDuplicateOperation says so, else it records the time in
\* operationDedupe and enqueues uploadToServer.
OnDidSaveTextDocument ==
    /\ saver.disk < MaxSaves
    /\ LET g == GetRemotePath(SavedFile, WorkspaceRoot, SaveConfig, GuardEnabled)
           skip == ShouldSkipDuplicateOperation(saver.lastSeen, saver.now) IN
       IF skip
       THEN /\ saver' = [saver EXCEPT !.disk = saver.disk + 1]
            /\ UNCHANGED <<queueVars, taskOps, issued, written, direct, lastResult>>
       ELSE /\ saver' = [saver EXCEPT !.disk = saver.disk + 1, !.lastSeen = saver.now]
            /\ Len(items) < MaxSaves
            /\ EnqueueTask(NoToken)
            /\ taskOps' = Append(taskOps, TaskOp("upload", g.path, g.base))
            /\ lastResult' = Result("uploadToServer", g.path, "pending", FALSE, FALSE, TRUE)
            /\ issued' = {}
            /\ written' = {}
            /\ UNCHANGED direct
    /\ UNCHANGED <<safety, connVars, trustVars, credVars, sideVars>>

\* The queue calls the closure of an upload of the saved file: sftp.put
\* reads the file as it is on disk now.
RunSavedUpload(id) ==
    /\ RunTask(id)
    /\ id <= Len(taskOps)
    /\ issued' = TaskCalls(taskOps[id], "none")
    /\ written' = {}
    /\ saver' = [saver EXCEPT !.sent = saver.disk]
    /\ UNCHANGED <<safety, taskOps, direct, lastResult, connVars, trustVars, credVars, sideVars>>

\* Time passes.
SaveClockTick ==
    /\ saver.now < MaxNow
    /\ saver' = [saver EXCEPT !.now = saver.now + 1]
    /\ UNCHANGED <<safety, taskOps, issued, written, direct, lastResult,
                   queueVars, connVars, trustVars, credVars, sideVars>>

\* Saves of one file with automatic upload switched on.
NextSave ==
    \/ OnDidSaveTextDocument
    \/ \E id \in 1..MaxSaves : RunSavedUpload(id)
    \/ \E id \in 1..MaxSaves, ok \in BOOLEAN : TaskSettles(id, ok)
    \/ \E id \in 1..MaxSaves : Finally(id)
    \/ SaveClockTick

(***************************************************************************)
(*                            Specifications                               *)
(***************************************************************************)

\* The connection manager and trust store at rest (for SpecQueue).
ConnIdle ==
    /\ InitConn
    /\ policy = "tofu"
    /\ entries = [h \in HostKeys |-> NoEntry]
    /\ persisted = entries
    /\ lastOp = NoOp

\* The transfer queue at rest (for SpecConn).
QueueIdle ==
    /\ concurrency = 1
    /\ queue = <<>>
    /\ activeCount = 0
    /\ items = <<>>
    /\ tokenCancelled = [t \in Tokens |-> FALSE]
    /\ clearOutcome = "none"

InitSpecConn == InitConn /\ InitTrust /\ QueueIdle /\ AppIdle

SpecConn == InitSpecConn /\ [][NextConn]_vars

SpecConnHosts == InitSpecConn /\ [][NextConnHosts]_vars

\* The trust store as loaded from its file: nothing, or entries trusted
\* earlier by hand.
InitSpecTrust ==
    /\ InitConn
    /\ QueueIdle
    /\ policy = "tofu"
    /\ entries \in [HostKeys -> {NoEntry, [fingerprint |-> "fpA", source |-> "manual"]}]
    /\ persisted = entries
    /\ lastOp = NoOp
    /\ AppIdle

SpecTrust == InitSpecTrust /\ [][NextTrust]_vars

SpecTrustDisk == InitSpecTrust /\ [][NextTrustDisk]_vars

InitSpecCred == QueueIdle /\ ConnIdle /\ InitCred /\ ExtIdle /\ SideIdle

SpecCred == InitSpecCred /\ [][NextCred]_vars

InitSpecExt == QueueIdle /\ ConnIdle /\ CredIdle /\ InitExt /\ SideIdle

SpecExt == InitSpecExt /\ [][NextExt]_vars

SpecExtQueue == InitSpecExt /\ [][NextExtQueue]_vars

InitSpecSave == QueueIdle /\ ConnIdle /\ CredIdle /\ ExtIdle /\ SideIdle

SpecSave == InitSpecSave /\ [][NextSave]_vars

\* The pool specifications run with host key checking switched off
\* (security.hostKeyPolicy = 'off'): every handshake is accepted.
InitSpecPool ==
    /\ InitConn
    /\ policy = "off"
    /\ entries = [h \in HostKeys |-> NoEntry]
    /\ persisted = entries
    /\ lastOp = NoOp
    /\ QueueIdle
    /\ AppIdle

SpecPool == InitSpecPool /\ [][NextPool]_vars

SpecClose == InitSpecPool /\ [][NextClose]_vars /\ CloseFairness

SpecDirs == InitSpecPool /\ [][NextDirs]_vars

SpecPre == InitSpecPool /\ [][NextPre]_vars

SpecTrustNow == InitSpecConn /\ [][NextTrustNow]_vars

SpecIdle == InitSpecPool /\ [][NextIdle]_vars

SpecBorrow == InitSpecPool /\ [][NextBorrow]_vars

InitSpecGuard == QueueIdle /\ ConnIdle /\ CredIdle /\ ExtIdle /\ MgrIdle /\ InitGuard

SpecGuard == InitSpecGuard /\ [][NextGuard]_vars

NextQueue ==
    \/ \E t \in Tokens \cup {NoToken} : Enqueue(t)
    \/ \E v \in ConcurrencyValues : SetConcurrency(v)
    \/ ClearPending
    \/ \E t \in Tokens : CancelToken(t)
    \/ \E id \in 1..MaxItems : InvokeTask(id)
    \/ \E id \in 1..MaxItems, ok \in BOOLEAN : TaskSettles(id, ok)
    \/ \E id \in 1..MaxItems : Finally(id)

InitSpecQueue == InitQueue /\ ConnIdle /\ AppIdle

SpecQueue == InitSpecQueue /\ [][NextQueue]_vars

\* The queue when its cap is never changed (setConcurrency may still be
\* called with the current cap).
NextQueueFixedCap ==
    \/ \E t \in Tokens \cup {NoToken} : Enqueue(t)
    \/ \E v \in ConcurrencyValues :
          ClampConcurrency(v) = concurrency /\ SetConcurrency(v)
    \/ ClearPending
    \/ \E t \in Tokens : CancelToken(t)
    \/ \E id \in 1..MaxItems : InvokeTask(id)
    \/ \E id \in 1..MaxItems, ok \in BOOLEAN : TaskSettles(id, ok)
    \/ \E id \in 1..MaxItems : Finally(id)

SpecQueueFixedCap == InitSpecQueue /\ [][NextQueueFixedCap]_vars

(***************************************************************************)
(*                     Properties of the TransferQueue                     *)
(***************************************************************************)

ItemIds == 1..Len(items)

InQueue(id) == \E i \in 1..Len(queue) : queue[i] = id

\* Items whose task function has been admitted and has not settled yet.
Unsettled == {id \in ItemIds : items[id].started /\ items[id].task \in {"idle", "running"}}

C6_SelfDraining ==
    (\A id \in ItemIds : items[id].started => items[id].finished) => queue = <<>>

\* The token of a pending item is cancelled in this step.
CancelledWhilePending(id) ==
    /\ id \in ItemIds
    /\ InQueue(id)
    /\ items[id].token # NoToken
    /\ ~tokenCancelled[items[id].token]
    /\ tokenCancelled'[items[id].token]

\* C7: cancelling the token of a pending item removes the item from the
\* queue (queued drops by one per cancelled item) and rejects its future
\* with OPERATION_CANCELED; from then on the item is never queued, never
\* started and its task is never invoked.
C7_CancelPending ==
    /\ [][ /\ \A id \in 1..MaxItems :
                CancelledWhilePending(id) =>
                    /\ \A i \in 1..Len(queue') : queue'[i] # id
                    /\ items'[id].future = "OPERATION_CANCELED"
                    /\ items'[id].canceled
           /\ tokenCancelled' # tokenCancelled =>
                Len(queue') = Len(queue)
                  - Cardinality({id \in 1..MaxItems : CancelledWhilePending(id)}) ]_vars
    /\ [](\A id \in ItemIds :
            items[id].canceled =>
                /\ ~InQueue(id)
                /\ ~items[id].started
                /\ items[id].task = "idle"
                /\ items[id].future # "pending")
    /\ [][\A id \in ItemIds :
            items[id].future = "OPERATION_CANCELED" =>
                items'[id].future = "OPERATION_CANCELED"]_vars

\* C7 witness: an item was cancelled while pending, and a later item has
\* since been started, run and finished.
C7_Witness ==
    \E id \in ItemIds, later \in ItemIds :
        /\ items[id].canceled
        /\ items[id].future = "OPERATION_CANCELED"
        /\ later > id
        /\ items[later].finished

\* The token of a started item is cancelled in this step.
CancelledAfterStart(id) ==
    /\ id \in ItemIds
    /\ items[id].started
    /\ items[id].token # NoToken
    /\ ~tokenCancelled[items[id].token]
    /\ tokenCancelled'[items[id].token]

\* C8: cancelling the token of a started item changes nothing about it
\* (not its task, not its future, not its active slot); the future of a
\* started item settles only with the task's own outcome, and the slot of a
\* started item is held until its task has settled.
C8_CancelStarted ==
    /\ [][ \A id \in 1..MaxItems :
              CancelledAfterStart(id) =>
                  /\ items'[id].task = items[id].task
                  /\ items'[id].future = items[id].future
                  /\ items'[id].started
                  /\ ~items'[id].canceled
                  /\ activeCount' = activeCount ]_vars
    /\ [](\A id \in ItemIds :
            items[id].started =>
                /\ ~items[id].canceled
                /\ items[id].future =
                      CASE items[id].task = "ok" -> "resolved"
                        [] items[id].task = "err" -> "failed"
                        [] OTHER -> "pending"
                /\ (items[id].finished => items[id].task \in {"ok", "err"}))
    /\ [](activeCount >= Cardinality(Unsettled))

\* C8 witness: a task is running although its token has been cancelled
\* (an item enqueued with a cancelled token is never started, so the
\* cancellation came after the start).
C8_Witness ==
    \E id \in ItemIds :
        /\ items[id].task = "running"
        /\ items[id].token # NoToken
        /\ tokenCancelled[items[id].token]
        /\ items[id].future = "pending"

\* This step is an enqueue with a token that is already cancelled.
EnqueueWithCancelledToken ==
    /\ Len(items') = Len(items) + 1
    /\ items'[Len(items')].token # NoToken
    /\ tokenCancelled[items'[Len(items')].token]

\* Items rejected by enqueue itself.
RejectedAtEnqueue(id) ==
    items[id].future = "OPERATION_CANCELED" /\ ~items[id].canceled

\* C9: enqueue with an already cancelled token rejects the future with
\* OPERATION_CANCELED at once, leaves queue and active count as they were,
\* and the item is never queued nor its task invoked.
C9_EnqueueCancelled ==
    /\ [][ EnqueueWithCancelledToken =>
              /\ items'[Len(items')].future = "OPERATION_CANCELED"
              /\ queue' = queue
              /\ activeCount' = activeCount ]_vars
    /\ [](\A id \in ItemIds :
            RejectedAtEnqueue(id) =>
                /\ ~InQueue(id)
                /\ ~items[id].started
                /\ items[id].task = "idle")

\* C9 witness: an item was rejected at enqueue while other items were
\* running and waiting.
C9_Witness ==
    /\ \E id \in ItemIds : RejectedAtEnqueue(id)
    /\ activeCount > 0
    /\ Len(queue) > 0

\* C10: after a clearPending call the queue is empty and no item that was
\* pending is left with an unsettled future, with or without tokens.
C10_ClearPending ==
    clearOutcome # "none" =>
        /\ clearOutcome = "returned"
        /\ queue = <<>>
        /\ \A id \in ItemIds : items[id].future = "pending" => items[id].started

\* C11: items are started in enqueue order (item ids are assigned in
\* enqueue order).  The queue holds waiting items oldest first; an item is
\* never started while an older item is still waiting; and an item that has
\* left the queue without being started (cancelled, cleared) never starts.
\* Hence of two items that both get started the older is started first,
\* whatever completes, is cancelled, or however the cap is changed.
C11_FifoStart ==
    /\ [](\A i \in 1..Len(queue), j \in 1..Len(queue) : i < j => queue[i] < queue[j])
    /\ [](\A a \in ItemIds, b \in ItemIds :
            a < b /\ items[b].started /\ ~items[a].started => ~InQueue(a))
    /\ [][\A a \in ItemIds :
            ~items[a].started /\ ~InQueue(a) => ~items'[a].started]_vars

\* C11 witness: the first item has run and finished, the second was
\* cancelled while it waited, and the third has been started and is the
\* only active one, under a cap that was raised in between.
C11_Witness ==
    /\ Len(items) = 3
    /\ items[1].finished
    /\ items[2].canceled /\ ~items[2].started
    /\ items[3].started /\ ~items[3].finished
    /\ items[1].task = "err"
    /\ concurrency = 2 /\ activeCount = 1

(***************************************************************************)
(*                  Properties of the ConnectionManager                    *)
(***************************************************************************)

AttemptIds == 1..Len(attempts)
CallIds == 1..Len(calls)

AttemptsFor(key) == {a \in AttemptIds : attempts[a].key = key}

\* The first connect ever started for a key (no connection is pooled and
\* none is in flight when it starts).
IsFirstAttempt(a) == \A b \in AttemptsFor(attempts[a].key) : a <= b

\* Call c has run its continuation for attempt a.
HasResumed(c, a) == \A i \in 1..Len(attempts[a].reactions) : attempts[a].reactions[i] # c

\* C1: calls for one key issued while nothing is pooled and the first
\* connect has not settled share that one connect: no second connect is
\* started for the key, every such call waits for it, and when it succeeds
\* it is pooled under the key and every one of the calls returns its handle.
C1_ConnectDedup ==
    /\ [](\A a \in AttemptIds :
            IsFirstAttempt(a) /\ ~Settled(a) =>
                /\ AttemptsFor(attempts[a].key) = {a}
                /\ connecting[attempts[a].key] = a
                /\ \A c \in CallIds :
                      calls[c].key = attempts[a].key =>
                          /\ calls[c].attempt = a
                          /\ calls[c].pc \in {"awaitOwn", "awaitInflight"})
    /\ [][\A a \in AttemptIds :
            IsFirstAttempt(a) /\ ~Settled(a) /\ attempts'[a].phase = "resolved" =>
                connections'[attempts[a].key].sftp = a]_vars
    /\ [](\A a \in AttemptIds, c \in CallIds :
            /\ IsFirstAttempt(a)
            /\ attempts[a].phase = "resolved"
            /\ calls[c].attempt = a
            /\ HasResumed(c, a)
            => calls[c].pc = "returned" /\ calls[c].result = a)

\* C1 witness: three calls, two of them joined the connect of the first;
\* all three have returned the one handle and no other connect was started.
C1_Witness ==
    /\ Len(calls) = 3
    /\ Len(attempts) = 1
    /\ attempts[1].phase = "resolved"
    /\ calls[2].joined = 1 /\ calls[3].joined = 1
    /\ \A c \in CallIds : calls[c].pc = "returned" /\ calls[c].result = 1
    /\ connections[attempts[1].key].sftp = 1

\* C2: at any time at most one transport connect is in flight per key
\* (and the pool holds at most one connection per key, being a map).
C2_OneConnectInFlight ==
    \A k \in Keys :
        Cardinality({a \in AttemptsFor(k) : TransportConnecting(a)}) <= 1

\* C3: a call that was waiting for an in-flight connect which failed is
\* rejected with that connect's error and starts no connect of its own.
C3_WaitersRejected ==
    \A c \in CallIds :
        LET a == calls[c].joined IN
        (a # NoAttempt /\ attempts[a].phase = "rejected" /\ HasResumed(c, a)) =>
            /\ calls[c].pc = "threw"
            /\ calls[c].error = attempts[a].error
            /\ calls[c].attempt = a

\* The fingerprint stored for the host of attempt a.
StoredFor(a) == entries[attempts[a].hostKey].fingerprint

\* C4: under tofu and strict, a connection is pooled or returned only if
\* the fingerprint offered in its handshake is the one stored for its
\* host:port (under strict: was stored before the handshake); a handshake
\* offering another key than the stored one never leads to a connection,
\* and a stored fingerprint is never changed by connecting.
C4_HostKeyEnforced ==
    /\ [](policy # "off" =>
            /\ \A k \in Keys :
                  connections[k] # NoConn =>
                      /\ attempts[connections[k].sftp].offered = StoredFor(connections[k].sftp)
                      /\ attempts[connections[k].sftp].reason \in {"match", "trusted_now"}
            /\ \A c \in CallIds :
                  calls[c].pc = "returned" =>
                      /\ attempts[calls[c].result].offered = StoredFor(calls[c].result)
                      /\ attempts[calls[c].result].reason \in {"match", "trusted_now"}
            /\ \A a \in AttemptIds :
                  /\ attempts[a].phase \in {"verified", "resolved"} =>
                        attempts[a].offered = StoredFor(a)
                  /\ policy = "strict" /\ attempts[a].phase \in {"verified", "resolved"} =>
                        attempts[a].reason = "match")
    /\ [][policy # "off" =>
            /\ \A h \in HostKeys : entries[h] # NoEntry => entries'[h] = entries[h]
            /\ policy = "strict" => entries' = entries
            /\ \A a \in AttemptIds :
                  (attempts[a].phase = "refused" /\ attempts'[a].phase # "refused") =>
                      attempts'[a].phase \in {"ending", "connecting"}]_vars

\* C4 witness: the key trusted on first use is pooled for one user while a
\* connect of the other user, offered a different key, has been rejected
\* as a mismatch; the stored fingerprint is still the first one.
C4_Witness ==
    /\ policy = "tofu"
    /\ \E a \in AttemptIds, b \in AttemptIds :
          /\ attempts[a].reason = "trusted_now"
          /\ connections[attempts[a].key].sftp = a
          /\ attempts[b].key # attempts[a].key
          /\ attempts[b].reason = "mismatch"
          /\ attempts[b].phase = "rejected"
          /\ attempts[b].error = "hostkey_mismatch"
          /\ StoredFor(b) = attempts[a].offered

(***************************************************************************)
(*                    Properties of the HostTrustStore                     *)
(***************************************************************************)

\* This step is a direct verifyFingerprint call; lastOp' describes it.
IsVerifyStep == lastOp'.n = lastOp.n + 1 /\ lastOp'.op = "verify"

\* The stored entry a call for config c is decided by: that of host:port,
\* where a config without a port means port 22.
EntryFor(ents, c) == ents[<<c.host, IF c.port = 0 THEN DefaultPort ELSE c.port>>]

Allowed(reason) ==
    [allowed |-> TRUE, reason |-> reason, expected |-> "none", actual |-> "none"]

Blocked(reason, expected, actual) ==
    [allowed |-> FALSE, reason |-> reason, expected |-> expected, actual |-> actual]

\* C12: under tofu the first verifyFingerprint(f) for a host:port without
\* an entry is allowed as trusted_now and stores f in memory and in the
\* file; from then on a call with f is allowed as a match, a call with
\* another g is blocked as a mismatch (expected f, actual g), and no
\* verifyFingerprint call, whatever its host, fingerprint and policy,
\* changes the entry stored on first use.
C12_TofuPinsFirstKey ==
    /\ [][IsVerifyStep /\ lastOp'.policy = "tofu" =>
            LET o == lastOp'
                cur == EntryFor(entries, o.config) IN
            /\ cur = NoEntry =>
                  /\ o.result = Allowed("trusted_now")
                  /\ EntryFor(entries', o.config) =
                         [fingerprint |-> o.fingerprint, source |-> "tofu"]
                  /\ EntryFor(persisted', o.config) = EntryFor(entries', o.config)
            /\ cur.source = "tofu" =>
                  /\ o.fingerprint = cur.fingerprint => o.result = Allowed("match")
                  /\ o.fingerprint # cur.fingerprint =>
                        o.result = Blocked("mismatch", cur.fingerprint, o.fingerprint)]_vars
    /\ [][IsVerifyStep =>
            \A h \in HostKeys :
                entries[h].source = "tofu" =>
                    entries'[h] = entries[h] /\ persisted'[h] = entries[h]]_vars

\* C12 witness: the third call in a row; the key trusted on first use is
\* still stored and a call offering the other key has just been blocked.
C12_Witness ==
    /\ lastOp.n = 3
    /\ lastOp.op = "verify" /\ lastOp.policy = "tofu"
    /\ lastOp.result = Blocked("mismatch", "fpB", "fpA")
    /\ EntryFor(entries, lastOp.config) = [fingerprint |-> "fpB", source |-> "tofu"]
    /\ EntryFor(persisted, lastOp.config) = [fingerprint |-> "fpB", source |-> "tofu"]

\* C13: the result of verifyFingerprint is the following function of the
\* policy, the entry stored for host:port and the offered fingerprint; two
\* configs that differ only in the username are decided by the same entry.
C13_VerifyOutcome ==
    /\ [][IsVerifyStep =>
            LET o == lastOp'
                cur == EntryFor(entries, o.config) IN
            o.result =
                IF o.policy = "off" THEN Allowed("policy_off")
                ELSE IF cur = NoEntry /\ o.policy = "strict" THEN Blocked("unknown_host", "none", "none")
                ELSE IF cur = NoEntry THEN Allowed("trusted_now")
                ELSE IF cur.fingerprint = o.fingerprint THEN Allowed("match")
                ELSE Blocked("mismatch", cur.fingerprint, o.fingerprint)]_vars
    /\ [](\A c1 \in TrustConfigs, c2 \in TrustConfigs :
            c1.host = c2.host /\ PortOf(c1) = PortOf(c2) => HostKey(c1) = HostKey(c2))

\* C13 witness: a key stored by an earlier call is the reason a strict call
\* of the other user of the host, offering another key, is blocked.
C13_Witness ==
    /\ lastOp.n >= 2
    /\ lastOp.op = "verify" /\ lastOp.policy = "strict"
    /\ lastOp.config.username = "u2"
    /\ lastOp.result = Blocked("mismatch", "fpB", "fpA")
    /\ EntryFor(entries, lastOp.config).source = "tofu"

\* C14: a verifyFingerprint call under strict for a host:port without an
\* entry, and any call under off, changes no entry in memory, does not
\* write the store file and leaves its contents as they were.
C14_VerifyFrame ==
    [][IsVerifyStep =>
          LET o == lastOp'
              cur == EntryFor(entries, o.config) IN
          (o.policy = "off" \/ (o.policy = "strict" /\ cur = NoEntry)) =>
              /\ entries' = entries
              /\ persisted' = persisted
              /\ ~o.persist]_vars

\* C14 witness: a strict call for an unseen host has been blocked while
\* the store holds an entry for the other host.
C14_Witness ==
    /\ lastOp.op = "verify" /\ lastOp.policy = "strict"
    /\ lastOp.result = Blocked("unknown_host", "none", "none")
    /\ EntryFor(entries, lastOp.config) = NoEntry
    /\ \E h \in HostKeys : entries[h] # NoEntry /\ persisted[h] = entries[h]

(***************************************************************************)
(*                   Properties of the CredentialStore                     *)
(***************************************************************************)

CredCallIds == 1..Len(credCalls)

\* Call c runs a loop iteration in this step.
Stepped(c) == credCalls'[c].todo # credCalls[c].todo

\* The field the next iteration of call c is about, its plaintext in the
\* config, and the value secure storage holds for it.
FieldOf(c) == Head(credCalls[c].todo).field
PlainOf(c) == Head(credCalls[c].todo).config[FieldOf(c)]
KeyOf(c) == SecretKey(WorkspaceId, Head(credCalls[c].todo).config, FieldOf(c))
StoredOf(c) == secrets[KeyOf(c)]

\* C15: resolve with autoMigrate enabled, for a config with a plaintext
\* password and no stored secret, stores the password with one store call,
\* returns it and lists password as migrated; a resolve (without overwrite)
\* that finds the secret present returns the stored value, makes no store
\* call and does not list the field; a finished resolve has made one store
\* call per migrated field.
C15_ResolveMigratesOnce ==
    /\ [][\A c \in CredCallIds :
            (Stepped(c) /\ credCalls[c].op = "resolve" /\ FieldOf(c) = "password") =>
                /\ (/\ NonEmpty(PlainOf(c))
                    /\ ~NonEmpty(StoredOf(c))
                    /\ credCalls[c].options.autoMigrate # "false") =>
                       /\ secrets' = [secrets EXCEPT ![KeyOf(c)] = PlainOf(c)]
                       /\ credCalls'[c].stores = credCalls[c].stores + 1
                       /\ credCalls'[c].result.password = PlainOf(c)
                       /\ "password" \in credCalls'[c].migratedFields
                /\ (NonEmpty(StoredOf(c)) /\ credCalls[c].options.overwrite # "true") =>
                       /\ secrets' = secrets
                       /\ credCalls'[c].stores = credCalls[c].stores
                       /\ credCalls'[c].result.password = StoredOf(c)
                       /\ "password" \notin credCalls'[c].migratedFields]_vars
    /\ [](\A c \in CredCallIds :
            credCalls[c].op = "resolve" /\ credCalls[c].done =>
                credCalls[c].stores = Cardinality(credCalls[c].migratedFields))

\* C15 witness: two resolve calls for the same config have returned; one
\* migrated the password with one store call, the other found it stored
\* and returned the same value without a store call.
C15_Witness ==
    /\ Len(credCalls) = 2
    /\ \A c \in CredCallIds :
          /\ credCalls[c].op = "resolve" /\ credCalls[c].done
          /\ credCalls[c].config.password = "p1"
          /\ credCalls[c].options.autoMigrate = "true"
          /\ credCalls[c].result.password = "p1"
    /\ credCalls[1].migratedFields = {"password"} /\ credCalls[1].stores = 1
    /\ credCalls[2].migratedFields = {} /\ credCalls[2].stores = 0
    /\ \E k \in SecretKeys : k[5] = "password" /\ secrets[k] = "p1"

\* C16: for each secret field, a resolve called without the overwrite
\* option that finds a non-empty value in secure storage puts that value
\* in the resolved config (not the config's plaintext), stores nothing,
\* does not list the field as migrated, and leaves its config argument as
\* it was.
C16_ResolvePrefersSecret ==
    [][\A c \in CredCallIds :
          (/\ Stepped(c)
           /\ credCalls[c].op = "resolve"
           /\ credCalls[c].options.overwrite = "unset"
           /\ NonEmpty(StoredOf(c))) =>
              /\ credCalls'[c].result[FieldOf(c)] = StoredOf(c)
              /\ secrets' = secrets
              /\ credCalls'[c].stores = credCalls[c].stores
              /\ FieldOf(c) \notin credCalls'[c].migratedFields
              /\ credCalls'[c].config = credCalls[c].config]_vars

\* C16 witness: a resolve of a config with plaintext for both fields has
\* returned the two stored values and stored nothing.
C16_Witness ==
    \E c \in CredCallIds :
        /\ credCalls[c].op = "resolve" /\ credCalls[c].done
        /\ credCalls[c].options.autoMigrate = "true"
        /\ credCalls[c].config.password = "p2" /\ credCalls[c].config.passphrase = "q2"
        /\ credCalls[c].result = [password |-> "s0", passphrase |-> "s0"]
        /\ credCalls[c].stores = 0 /\ credCalls[c].migratedFields = {}

\* C17: migrateFromPlaintext and migrateAll called without the overwrite
\* option neither write nor count a field that already has a non-empty
\* value in secure storage (so a repeated call returns 0 and changes
\* nothing), and the count they return is the number of store calls made.
C17_MigrateIdempotent ==
    /\ [][\A c \in CredCallIds :
            (/\ Stepped(c)
             /\ credCalls[c].op \in {"migrate", "migrateAll"}
             /\ credCalls[c].options.overwrite = "unset"
             /\ NonEmpty(StoredOf(c))) =>
                /\ secrets' = secrets
                /\ credCalls'[c].count = credCalls[c].count
                /\ credCalls'[c].stores = credCalls[c].stores]_vars
    /\ [](\A c \in CredCallIds :
            credCalls[c].op \in {"migrate", "migrateAll"} =>
                credCalls[c].count = credCalls[c].stores)

(***************************************************************************)
(*          Properties of the upload, delete and download operations       *)
(***************************************************************************)

\* Does the remote path of a transport call lie inside the base it was
\* made for?
InsideBase(call) == ~StartsWithDotDot(PosixRelative(call.base, call.path))

\* Does a local path lie inside the workspace folder?
InsideWorkspace(localPath) == ~StartsWithDotDot(PosixRelative(WorkspaceRoot, localPath))

\* C18: with blockPathTraversal enabled, every remote path handed to a
\* transport call by an upload, delete, mkdir, download or compare lies
\* inside the server's remote base (remotePath or the selected mapping's
\* remote), and every local path a download writes lies inside the
\* workspace folder; the paths downloadDirectory builds from the entry
\* names of the server's listing included.
C18_PathsInsideBase ==
    safety.blockPathTraversal =>
        /\ \A call \in issued : InsideBase(call)
        /\ \A localPath \in written : InsideWorkspace(localPath)

\* The queue tasks whose closure is being executed.
RunningTasks == {id \in 1..Len(items) : items[id].task = "running"}

\* C19: every remote transfer runs as a TransferQueue task, so the number
\* of transfers in flight at once (the running queue tasks and the
\* downloads) never exceeds the cap.
C19_TransfersWithinCap == Cardinality(RunningTasks) + direct <= concurrency

\* The remote paths a delete must not reach: the root always, a configured
\* critical path unless blockCriticalDeletes is disabled.
MustBlock(remotePath) ==
    \/ remotePath = RootPath
    \/ safety.blockCriticalDeletes /\ remotePath \in CriticalRemotePaths

\* C20: deleteFromServer never enqueues a task and never issues exists,
\* delete or rmdir for the root path or, unless blockCriticalDeletes is
\* disabled, for a path equal to a configured critical path; the call
\* returns {success: false, blocked: true} and does not throw.
C20_BlockedDeleteNeverRuns ==
    /\ Len(taskOps) = Len(items)
    /\ \A id \in 1..Len(taskOps) :
          taskOps[id].kind = "delete" => ~MustBlock(taskOps[id].path)
    /\ \A call \in issued :
          call.op \in {"exists", "delete", "rmdir"} => ~MustBlock(call.path)
    /\ (lastResult.op = "deleteFromServer" /\ MustBlock(lastResult.path)) =>
          /\ lastResult.success = "false"
          /\ lastResult.blocked
          /\ ~lastResult.threw
          /\ ~lastResult.enqueued

\* C20 witness: an earlier delete of an ordinary path has gone through the
\* queue, and now the delete of a critical path other than the root has
\* been answered with the blocked result.
C20_Witness ==
    /\ safety.blockCriticalDeletes
    /\ lastResult.op = "deleteFromServer"
    /\ lastResult.blocked
    /\ lastResult.path \in CriticalRemotePaths \ {RootPath}
    /\ \E id \in 1..Len(taskOps) :
          taskOps[id].kind = "delete" /\ items[id].task \in {"ok", "err"}

(***************************************************************************)
(*                     Properties of the path guard                        *)
(***************************************************************************)

\* Candidate c is the base b or lies beneath it: the segments of the
\* normalized base are the first segments of the normalized candidate.
AtOrBeneath(b, c) == IsPrefix(NormalizeRemotePath(b).segs, NormalizeRemotePath(c).segs)

\* C21: with the guard enabled, assertRemotePathSafe(base, candidate) returns
\* the normalized candidate when the normalized candidate equals the
\* normalized base or lies beneath it, and throws
\* PATH_GUARD_REMOTE_TRAVERSAL in every other case and only then.
C21_RemoteGuardExact ==
    (guard.fn = "assertRemotePathSafe" /\ guard.called /\ guard.enabled) =>
        IF AtOrBeneath(guard.remoteBase, guard.remotePath)
        THEN guard.ok /\ guard.path = NormalizeRemotePath(guard.remotePath)
        ELSE ~guard.ok

\* Candidate c lies strictly beneath some element of the list.
BeneathListed(c, list) ==
    \E item \in list :
        /\ AtOrBeneath(item, c)
        /\ NormalizeRemotePath(item).segs # NormalizeRemotePath(c).segs

\* C22: isCriticalRemotePath(p, list) is true exactly when the normalized p
\* equals the normalized form of some element of list; a path that is only
\* beneath a critical path is not critical, and with an empty list no path
\* is critical.
C22_CriticalExactMatch ==
    (guard.fn = "isCriticalRemotePath" /\ guard.called) =>
        LET target == NormalizeRemotePath(guard.remotePath)
            listed == { NormalizeRemotePath(item) : item \in guard.criticalPaths } IN
        /\ guard.critical <=> target \in listed
        /\ guard.critical => \E item \in listed : item.segs = target.segs
        /\ guard.criticalPaths = {} => ~guard.critical

\* Witness for C22: a path strictly beneath a listed path was asked about,
\* and was found not critical; the list is not empty.
C22_Witness ==
    /\ guard.fn = "isCriticalRemotePath"
    /\ guard.called
    /\ ~guard.critical
    /\ BeneathListed(guard.remotePath, guard.criticalPaths)
    /\ RootPath \notin guard.criticalPaths

(***************************************************************************)
(*        Properties of shutdown, idle sweep and transport events          *)
(***************************************************************************)

CloserIds == 1..Len(closers)

\* C24: closeConnection, closeAll and dispose never reject and always
\* complete: whether the end() of a transport resolves, rejects or never
\* settles, the call resolves once its hard timeout has fired at the latest;
\* from dispose on the idle sweep timer is cancelled.
C24_CloseAlwaysCompletes ==
    /\ [](\A c \in CloserIds : closers[c].pc # "rejected")
    /\ [](\A c \in CloserIds : closers[c].op = "dispose" => ~cleanupInterval)
    /\ \A c \in 1..MaxClosers :
          (c \in CloserIds /\ closers[c].pc = "awaiting")
              ~> (c \in CloserIds /\ closers[c].pc = "resolved")

\* Witness for C24: a dispose call that waited for a pooled transport has
\* resolved through its timeout.
C24_Witness ==
    \E c \in CloserIds :
        /\ closers[c].op = "dispose"
        /\ closers[c].pc = "resolved"
        /\ closers[c].timedOut
        /\ closers[c].transports # {}

\* Call i of getConnection returns in this step.
ReturnsNow(i) ==
    /\ i \in 1..Len(calls')
    /\ calls'[i].pc = "returned"
    /\ i \in 1..Len(calls) => calls[i].pc # "returned"

\* C23: closeConnection, closeAll and dispose have removed the entries they
\* shut down from the pool, with their directory caches, by the time they
\* wait for the transports; and no getConnection call returns a transport
\* that a close call still in progress is shutting down.
C23_EvictedBeforeSuspend ==
    /\ [](\A c \in CloserIds :
            closers[c].pc = "awaiting" =>
                \A k \in Keys :
                    connections[k].sftp \notin closers[c].transports)
    /\ [][\A i \in 1..MaxAttempts, c \in CloserIds :
            (ReturnsNow(i) /\ closers[c].pc = "awaiting") =>
                calls'[i].result \notin closers[c].transports]_vars

\* Transport a delivers an event to the listeners of _createConnection.
EmitsEvent(a) == CloseEvent(a) \/ ErrorEvent(a) \/ FailedConnectCloses(a)

\* C29: a close, end or error event of a transport evicts a pooled entry,
\* or its directory cache, only if the entry holds the transport that
\* emitted the event.
C29_EventEvictsOwnEntry ==
    [][\A a \in 1..Len(attempts) :
          EmitsEvent(a) =>
              \A k \in Keys :
                  (connections'[k] # connections[k] \/ dirCache'[k] # dirCache[k])
                      => connections[k].sftp = a]_vars

\* C30: every transport that connected through getConnection and on which
\* neither end() was called nor a close, end or error was reported (its
\* socket is open) is the pooled entry of its key.
C30_NoOpenTransportUntracked ==
    \A a \in 1..Len(attempts) :
        (attempts[a].phase = "resolved" /\ attempts[a].sock = "open")
            => connections[attempts[a].key].sftp = a

\* C31: once a dispose (or closeAll) call that was made while a connect
\* attempt was in flight has resolved and every attempt has settled, with no
\* getConnection call made after the dispose call, the pool is empty and no
\* transport opened by the manager is open.
C31_DisposeLeavesNothing ==
    \A c \in CloserIds :
        ( /\ closers[c].op \in {"dispose", "closeAll"}
          /\ closers[c].pc = "resolved"
          /\ closers[c].inflight # {}
          /\ closers[c].callsBefore = Len(calls)
          /\ \A a \in 1..Len(attempts) : Settled(a) )
        => /\ Pooled = {}
           /\ \A a \in 1..Len(attempts) : attempts[a].sock # "open"

\* Call c of getConnection reaches `if (this.connections.has(key))` in this
\* step: it is made while no connect is in flight for its key, or it had
\* joined a connect that was rejected.
LooksUp(c) ==
    \/ /\ c = Len(calls) + 1
       /\ Len(calls') = c
       /\ connecting[calls'[c].key] = NoAttempt
    \/ /\ c \in 1..Len(calls)
       /\ calls[c].pc = "awaitInflight"
       /\ calls'[c] # calls[c]
       /\ attempts[calls[c].attempt].phase = "rejected"

\* C32: a getConnection call that finds a pooled entry returns its handle,
\* starting no connect and refreshing lastUsed, if and only if the pooled
\* transport's socket is open (the liveness check); otherwise the entry and
\* its directory cache are discarded, the transport is left ended, and the
\* call starts exactly one connect, registers it as in flight and awaits it;
\* a call returns the handle of the connect it started.
C32_ReuseOnlyIfAlive ==
    [][\A c \in 1..MaxAttempts :
          /\ LooksUp(c) =>
                LET k == calls'[c].key
                    conn == connections[k]
                    new == Len(attempts) + 1 IN
                IF conn # NoConn /\ attempts[conn.sftp].sock = "open"
                THEN /\ calls'[c].pc = "returned"
                     /\ calls'[c].result = conn.sftp
                     /\ Len(attempts') = Len(attempts)
                     /\ connections' = [connections EXCEPT ![k] = Conn(conn.sftp, 0)]
                     /\ dirCache' = dirCache
                ELSE /\ connections'[k] = NoConn
                     /\ conn # NoConn => dirCache'[k] = NoCache
                     /\ conn # NoConn => attempts'[conn.sftp].sock # "open"
                     /\ Len(attempts') = new
                     /\ attempts'[new].key = k
                     /\ connecting'[k] = new
                     /\ calls'[c].pc = "awaitOwn"
                     /\ calls'[c].attempt = new
          /\ (c \in 1..Len(calls) /\ calls[c].pc = "awaitOwn" /\ ReturnsNow(c))
                => calls'[c].result = calls[c].attempt]_vars

\* Witness for C32: a call found a pooled connection whose socket had died
\* (its close event not yet delivered), discarded it, and has returned the
\* handle of the connect it started; the discarded transport is not pooled.
C32_Witness ==
    \E c \in 1..Len(calls), old \in 1..Len(attempts) :
        /\ calls[c].pc = "returned"
        /\ calls[c].result = calls[c].attempt
        /\ old < calls[c].attempt
        /\ attempts[old].key = calls[c].key
        /\ attempts[old].phase = "resolved"
        /\ attempts[old].sock = "dead"
        /\ connections[calls[c].key].sftp = calls[c].result

\* Transport a has an operation of a borrower in flight: a task that got
\* the handle from getConnection is awaiting sftp.mkdir on it.
OperationInFlight(a) ==
    \E i \in 1..Len(dirCalls) : dirCalls[i].pc = "mkdir" /\ dirCalls[i].sftp = a

\* C33: the idle sweep closes and evicts only pooled connections that have
\* been unused for longer than the idle threshold, and none on which a
\* borrower has a transport operation in flight.
C33_SweepSparesBusy ==
    [][\A ks \in SUBSET Keys :
          IdleSweep(ks) =>
              \A k \in ks :
                  /\ Expired(connections[k])
                  /\ ~OperationInFlight(connections[k].sftp)]_vars

\* A mkdir that covers directory d was issued on transport a: an ensureDir
\* call with that handle called sftp.mkdir for d or for a descendant of d.
MkdirIssuedOn(a, d) ==
    \E i \in 1..Len(dirCalls) :
        /\ dirCalls[i].sftp = a
        /\ dirCalls[i].mkdir
        /\ d \in {dirCalls[i].dir} \cup CachedPrefixes(dirCalls[i].dir)

\* C34: once a pooled connection is gone, the directory cache created for
\* it is gone as well; and the directory cache of a pooled connection is
\* the one created for it and contains only directories for which a mkdir
\* was issued on that connection, whatever handle ensureDir is called with.
C34_CacheFollowsConnection ==
    \A k \in Keys :
        IF connections[k] = NoConn
        THEN dirCache[k].owner <= 0
        ELSE dirCache[k].present =>
                /\ dirCache[k].owner = connections[k].sftp
                /\ \A d \in dirCache[k].dirs : MkdirIssuedOn(connections[k].sftp, d)

(***************************************************************************)
(*                  Properties of the error reporting                      *)
(***************************************************************************)

\* The errors _wrapHostKeyError puts in place of the transport's error.
HostKeyErrors == {"hostkey_unknown", "hostkey_mismatch", "hostkey_failed"}

\* The verifier blocked the key offered during attempt a.
BlockedInAttempt(a) == attempts[a].reason \in {"unknown_host", "mismatch"}

\* C27: a failed connect is reported as a host-key error exactly when the
\* verifier blocked the offered key during that same attempt; otherwise the
\* raw error is propagated, whatever happened in earlier attempts for the
\* key.  (SpecConn: one handshake per sftp.connect.)
C27_HostKeyErrorOwnAttempt ==
    \A a \in 1..Len(attempts) :
        attempts[a].phase = "rejected" =>
            (attempts[a].error \in HostKeyErrors <=> BlockedInAttempt(a))

(***************************************************************************)
(*                       Properties of ensureDir                           *)
(***************************************************************************)

\* Directory x is a proper ancestor of directory d.
IsAncestor(x, d) == Len(x.segs) < Len(d.segs) /\ IsPrefix(x.segs, d.segs)

\* ensureDir call j was made after call i had completed, for the same key
\* and while the connection of call i was still the pooled one.
Repeats(j, i) ==
    /\ i \in dirCalls[j].before
    /\ dirCalls[j].key = dirCalls[i].key
    /\ dirCalls[j].set = dirCalls[i].set

\* C26: after ensureDir for d has completed, a later ensureDir on the same
\* pooled connection issues no mkdir for d, nor, if the mkdir of the first
\* call succeeded, for any ancestor of d; after a failed mkdir (which
\* ensureDir swallows) the ancestors of d are not marked.
C26_EnsureDirCached ==
    \A j \in 1..Len(dirCalls), i \in 1..Len(dirCalls) :
        Repeats(j, i) =>
            /\ dirCalls[j].dir = dirCalls[i].dir => ~dirCalls[j].mkdir
            /\ (dirCalls[i].mkdir /\ dirCalls[i].ok
                    /\ IsAncestor(dirCalls[j].dir, dirCalls[i].dir)) => ~dirCalls[j].mkdir
            /\ (dirCalls[i].mkdir /\ ~dirCalls[i].ok /\ dirCalls[j].before = {i}
                    /\ IsAncestor(dirCalls[j].dir, dirCalls[i].dir)) => dirCalls[j].mkdir

(***************************************************************************)
(*                     Properties of preConnectAll                         *)
(***************************************************************************)

\* C28: preConnectAll never rejects; it resolves to one record per input
\* config, in input order, with success true exactly when the getConnection
\* call for that config returned and with the call's error otherwise; for
\* an empty or missing list it resolves to the empty list and makes no
\* getConnection call and no connect.
C28_PreConnectRecords ==
    \A p \in 1..Len(preCalls) :
        LET pre == preCalls[p]
            configs == pre.input.configs IN
        /\ pre.pc # "rejected"
        /\ pre.started = Len(configs)
        /\ pre.pc = "resolved" =>
              /\ Len(pre.result) = Len(configs)
              /\ \A i \in 1..Len(configs) :
                    /\ PreCallOf(p, i).key = ConnectionKey(configs[i])
                    /\ pre.result[i].server = configs[i].host
                    /\ pre.result[i].success <=> PreCallOf(p, i).pc = "returned"
                    /\ ~pre.result[i].success =>
                          /\ PreCallOf(p, i).pc = "threw"
                          /\ pre.result[i].error = PreCallOf(p, i).error
                          /\ pre.result[i].error # "none"
        /\ (~pre.input.given \/ configs = <<>>) =>
              /\ pre.pc = "resolved"
              /\ pre.result = <<>>
              /\ pre.attempted = 0

\* Witness for C28: a preConnectAll call for two servers has resolved to
\* one failure followed by one success.
C28_Witness ==
    \E p \in 1..Len(preCalls) :
        /\ preCalls[p].pc = "resolved"
        /\ Len(preCalls[p].result) = 2
        /\ ~preCalls[p].result[1].success
        /\ preCalls[p].result[2].success
        /\ PreCallOf(p, 1).key # PreCallOf(p, 2).key

(***************************************************************************)
(*                    Properties of trustHostKeyNow                        *)
(***************************************************************************)

\* trustHostKeyNow call t takes a step.
TrustNowSteps(t) ==
    /\ t \in 1..Len(trustNow')
    /\ t \in 1..Len(trustNow) => trustNow'[t] # trustNow[t]

\* C25: trustHostKeyNow has called end() on its disposable transport
\* whenever it has returned or thrown; it never touches the connection
\* pool; and it changes the trust store only in a call that succeeds, where
\* the entry of the config's host:port becomes the captured fingerprint with
\* source manual, in memory and in the store file, and nothing else changes.
C25_TrustNowCleansUp ==
    /\ [](\A t \in 1..Len(trustNow) :
            trustNow[t].pc \in {"returned", "threw"} => trustNow[t].ended)
    /\ [][\A t \in 1..MaxTrustNow :
            TrustNowSteps(t) =>
                /\ UNCHANGED <<connections, connecting, dirCache>>
                /\ (entries' # entries \/ persisted' # persisted) =>
                      /\ trustNow'[t].error = "none"
                      /\ entries' = [entries EXCEPT ![trustNow[t].hostKey] =
                                        [fingerprint |-> trustNow[t].captured,
                                         source |-> "manual"]]
                      /\ persisted' = entries'
                /\ (trustNow'[t].pc = "returned") =>
                      trustNow[t].captured \in Fingerprints]_vars

(***************************************************************************)
(*          Properties of the queue's cap, counters and tokens             *)
(***************************************************************************)

\* Item id is started in this step.
StartsNow(id) ==
    /\ id \in 1..Len(items')
    /\ items'[id].started
    /\ id \in 1..Len(items) => ~items[id].started

\* C35: setConcurrency(n) sets the cap to max(1, n) and, within the call,
\* starts the first pending items in queue order until the active count
\* has reached the new cap or nothing is pending; it changes no started
\* item, and with the active count at or above the new cap it starts
\* nothing.  No step starts an item beyond the cap in force.
C35_SetConcurrencyAdmits ==
    /\ [][\A v \in ConcurrencyValues :
            SetConcurrency(v) =>
                /\ concurrency' = Max(1, v)
                /\ activeCount' >= concurrency' \/ queue' = <<>>
                /\ \E n \in 0..Len(queue) :
                      /\ queue' = SubSeq(queue, n + 1, Len(queue))
                      /\ activeCount' = activeCount + n
                      /\ n <= Max(0, concurrency' - activeCount)
                      /\ \A id \in 1..Len(items) :
                            StartsNow(id) <=> \E i \in 1..n : queue[i] = id
                /\ Len(items') = Len(items)
                /\ \A id \in 1..Len(items) : items[id].started => items'[id] = items[id]
                /\ activeCount >= concurrency' =>
                      queue' = queue /\ activeCount' = activeCount /\ items' = items]_vars
    /\ [][\A id \in 1..MaxItems : StartsNow(id) => activeCount' <= concurrency']_vars

\* Witness for C35: the cap was lowered below the number of running tasks:
\* two tasks run under a cap of one and a third item waits.
C35_Witness ==
    /\ concurrency = 1
    /\ activeCount = 2
    /\ Len(queue) = 1
    /\ Cardinality({ id \in 1..Len(items) : items[id].task = "running" }) = 2

\* The items that wait: enqueued, not started, neither cancelled nor cleared.
PendingItems == { id \in 1..Len(items) : ~items[id].started /\ items[id].future = "pending" }

\* The started items whose task has not settled yet.
UnsettledTasks == { id \in 1..Len(items) : items[id].started /\ items[id].task \in {"idle", "running"} }

\* The started items whose completion handler (.finally) has not run yet.
UnfinishedItems == { id \in 1..Len(items) : items[id].started /\ ~items[id].finished }

\* stats().queued is the number of waiting items, and the queue holds them.
QueuedIsPending ==
    /\ Len(queue) = Cardinality(PendingItems)
    /\ \A id \in 1..Len(items) : InQueue(id) <=> id \in PendingItems

\* C36 as stated: stats().active is the number of started items whose task
\* has not settled, never negative; stats().queued is the number of waiting
\* items; with every task settled and nothing waiting, active is 0.
C36_StatsExact ==
    /\ activeCount >= 0
    /\ activeCount = Cardinality(UnsettledTasks)
    /\ QueuedIsPending
    /\ (UnsettledTasks = {} /\ queue = <<>>) => activeCount = 0

\* C36 as amended: stats().active is the number of started items whose
\* completion handler has not run yet (the handler runs a few microtasks
\* after the task settles), never negative; stats().queued is the number of
\* waiting items; once the completion handler of every started item has
\* run, active is 0.
C36_StatsCounts ==
    /\ activeCount >= 0
    /\ activeCount = Cardinality(UnfinishedItems)
    /\ QueuedIsPending
    /\ UnfinishedItems = {} => activeCount = 0

\* Witness for C36: one item has completed, the task of a second has
\* settled while its completion handler has not run, and a third waits.
C36_Witness ==
    /\ \E id \in 1..Len(items) : items[id].finished
    /\ \E id \in UnfinishedItems : items[id].task \in {"ok", "err"}
    /\ activeCount = 1
    /\ PendingItems # {}

\* The token of item id has been cancelled.
TokenCancelled(id) == items[id].token # NoToken /\ tokenCancelled[items[id].token]

\* The future of item id was rejected by the cancellation (or, for an item
\* that clearPending had dropped before, by clearPending).
RejectedUnrun(id) == items[id].future \in {"OPERATION_CANCELED", "cleared"}

C38_AllOrNothing ==
    /\ [](lastOp.persist => persisted = entries)
    /\ [][lastOp'.op \in ThrownOps => entries' = entries]_vars
    /\ [](lastOp.op = "verify" /\ lastOp.result.reason = "match" =>
              EntryFor(persisted, lastOp.config).fingerprint = lastOp.fingerprint)

(***************************************************************************)
(*              Properties of the delete veto and spelling                 *)
(***************************************************************************)

\* Two spellings of one absolute path: after '.' and '..' are resolved from
\* the root the same segments remain, whatever slashes are written.
SameAbsolutePath(p, q) == Collapse(p.segs, <<>>, TRUE) = Collapse(q.segs, <<>>, TRUE)

\* Path p names a configured critical directory, in some spelling.
NamesCritical(p) == \E c \in CriticalRemotePaths : SameAbsolutePath(p, c)

\* C39: the delete veto does not depend on the spelling of a path:
\* normalizeRemotePath gives the path of a delete task and a critical path
\* that name the same directory the same string, and (unless
\* blockCriticalDeletes is disabled) no delete task is enqueued and no
\* delete or rmdir is issued against a configured critical directory.
C39_VetoIgnoresSpelling ==
    /\ \A id \in 1..Len(taskOps), c \in CriticalRemotePaths :
          (taskOps[id].kind = "delete" /\ SameAbsolutePath(taskOps[id].path, c)) =>
              NormalizeRemotePath(taskOps[id].path) = NormalizeRemotePath(c)
    /\ safety.blockCriticalDeletes =>
          /\ \A id \in 1..Len(taskOps) :
                taskOps[id].kind = "delete" => ~NamesCritical(taskOps[id].path)
          /\ \A call \in issued :
                call.op \in {"delete", "rmdir"} => ~NamesCritical(call.path)

(***************************************************************************)
(*                 Properties of the automatic upload                      *)
(***************************************************************************)

\* No enqueued upload is still waiting to read the file.
NoUploadWaiting == \A id \in 1..Len(items) : items[id].task # "idle"

\* C40: deduplication never leaves the remote stale: whenever no upload
\* is waiting in the queue, the content last handed to sftp.put is the last
\* saved content (an upload carrying the last save has been enqueued),
\* also when two saves fall into one dedupe window.
C40_LastSaveIsUploaded == NoUploadWaiting => saver.sent = saver.disk

====
